---- MODULE Spec2Model ----
(***************************************************************************)
(* Lobby monitor of src/index.js: the lobby snapshot cache and its         *)
(* fetcher, the 5-second poll cycle, the on-demand leaderboard read and    *)
(* the per-guild watch rules with their cooldown.                          *)
(*                                                                         *)
(* One action is one turn of the JavaScript event loop: a timer or I/O     *)
(* callback together with every promise continuation it makes runnable,    *)
(* up to the next await of a network request or of a Discord send.         *)
(* Nullable values are sequences: <<>> is null, <<v>> is the value v.      *)
(***************************************************************************)
EXTENDS Integers, Sequences, FiniteSets, TLC

\* ----- bounds of the model ------------------------------------------------
MaxPending == 2
MaxCacheTicks == 2
MaxWatchTicks == 2
MaxThreshold == 1
MaxMinutes == 2

\* ----- program constants --------------------------------------------------
FreshMs == 5000
MsPerMinute == 60000
ActiveSize == 3
\* granularity of time: half a freshness window, a minute
CacheTickMs == FreshMs \div 2
WatchTickMs == MsPerMinute

Null == <<>>
Some(v) == <<v>>
Val(o) == o[1]

\* LOBBIES, with the url kept only as present ("" is the source's null).
LOBBIES ==
  << [key |-> "us-1",  region |-> "us", lobby |-> 1,
      url |-> "https://damnbruh-game-server-instance-1-us.onrender.com/players"],
     [key |-> "us-5",  region |-> "us", lobby |-> 5,
      url |-> "https://damnbruh-game-server-instance-5-us.onrender.com/players"],
     [key |-> "us-20", region |-> "us", lobby |-> 20,
      url |-> "https://damnbruh-game-server-instance-20-us.onrender.com/players"],
     [key |-> "eu-1",  region |-> "eu", lobby |-> 1,
      url |-> "https://damnbruh-game-server-instance-1-eu.onrender.com/players"],
     [key |-> "eu-5",  region |-> "eu", lobby |-> 5, url |-> ""],
     [key |-> "eu-20", region |-> "eu", lobby |-> 20,
      url |-> "https://damnbruh-game-server-instance-20-eu.onrender.com/players"] >>

\* The lobbies of the model, as indexes of LOBBIES: two with an endpoint and
\* the one without. A specification polls all of them or OneEndpoint.
LobbyIdx == {1, 2, 5}
OneEndpoint == {1, 5}
LobbiesAt(L) == {LOBBIES[i] : i \in L}
Lobbies == LobbiesAt(LobbyIdx)
Keys == {l.key : l \in Lobbies}
HasUrl(l) == l.url # ""
LobbyOf(k) == CHOOSE l \in Lobbies : l.key = k

\* ----- upstream responses the model draws from ----------------------------
PlayerA == [privyId |-> "pa", id |-> "a", name |-> "Ann", size |-> Some(10),
            monetaryValue |-> Some(2)]
PlayerB == [privyId |-> "", id |-> "b", name |-> "", size |-> Some(2),
            monetaryValue |-> Null]
PlayerC == [privyId |-> "", id |-> "c", name |-> "Cy", size |-> Some(7),
            monetaryValue |-> Some(1)]
PlayerD == [privyId |-> "", id |-> "d", name |-> "", size |-> Some(5),
            monetaryValue |-> Null]

\* res.data of the players endpoint; hasPlayers = FALSE is a body whose
\* players field is not an array.
BodyBare ==
  [success |-> TRUE,  serverId |-> "",    playerCount |-> Null,
   hasPlayers |-> FALSE, players |-> <<>>, timestamp |-> Null]
BodyOneActive ==
  [success |-> TRUE,  serverId |-> "srv", playerCount |-> Some(2),
   hasPlayers |-> TRUE, players |-> <<PlayerA, PlayerB>>, timestamp |-> Null]
BodyTwoActive ==
  [success |-> TRUE,  serverId |-> "srv", playerCount |-> Null,
   hasPlayers |-> TRUE, players |-> <<PlayerC, PlayerA>>, timestamp |-> Null]
BodyRefused ==
  [success |-> FALSE, serverId |-> "",    playerCount |-> Null,
   hasPlayers |-> FALSE, players |-> <<>>, timestamp |-> Null]
\* a body that lists one player twice
BodyRejoin ==
  [success |-> TRUE,  serverId |-> "srv", playerCount |-> Null,
   hasPlayers |-> TRUE, players |-> <<PlayerD, PlayerA, PlayerD>>, timestamp |-> Null]

Bodies == {BodyBare, BodyOneActive, BodyTwoActive, BodyRefused}

\* What axios.get settles with: a body, or a rejection.
Outcomes == [kind : {"body"}, body : Bodies]
            \cup [kind : {"timeout", "error"}, body : {BodyRefused}]

\* The outcomes that differ for the cache: one body with the optional fields
\* absent, one with them present, and every way of failing.
CacheOutcomes == {o \in Outcomes : o.body # BodyTwoActive}

\* The outcomes that differ for join detection: the active identifiers are
\* none, {pa}, {c, pa} or {d, pa}, or the fetch fails.
JoinOutcomes ==
  [kind : {"body"}, body : {BodyBare, BodyOneActive, BodyTwoActive, BodyRejoin}]
  \cup [kind : {"timeout"}, body : {BodyRefused}]

\* The outcomes that differ for a whole cycle: a fetch brings one of two
\* sets of active players, or fails.
PollOutcomes ==
  [kind : {"body"}, body : {BodyOneActive, BodyTwoActive}]
  \cup [kind : {"timeout"}, body : {BodyRefused}]

VARIABLES
  clock,            \* Date.now(), ms
  solPriceUsd,      \* nullable rate
  solPriceUpdatedAt,
  lobbyCache,       \* the Map: key -> null or the cached snapshot
  requests,         \* axios requests in flight, oldest first
  guildConfigs,     \* the Map, in insertion order: a sequence of configs
  reachable,        \* guilds whose alert channel client.guilds.cache resolves
  cyc,              \* the poll cycles in progress
  requested,        \* history: was a request ever issued for the lobby
  lastWrite,        \* history: how the last cache write relates to the one before
  prevCall,         \* history: the last completed getLobbySnapshot call per lobby
  watchHist,        \* history: per watch, its previous outcome and last alert time
  joinHist,         \* history: per guild and lobby, the previous join detection
  pair,             \* this turn: a getLobbySnapshot call and the one before it
  returned,         \* this turn: the values the fetcher functions returned
  reply,            \* this turn: the title of the reply to a command
  evals,            \* this turn: the watch evaluations made
  joined,           \* this turn: the join detections made
  alerts,           \* this turn: the watch alerts whose send completed
  refreshConfigs,   \* the refresh fields of the guild configs, in insertion order
  rr,               \* runRegionRefreshLoop: where the running cycle stands
  lbIn,             \* the arguments of a leaderboard rendering
  lbOut,            \* null or what buildLbEmbed rendered from lbIn
  lbPrev,           \* history: null or the rendering before lbOut
  priceReq,         \* is a request of refreshSolPrice in flight
  priceLast,        \* history: null or the last settled price response
  disk,             \* null or the contents of the config file
  savedFrom         \* history: null or the configs the file was written from

\* What the poller, the cache and the alert commands work on.
pollVars == <<clock, solPriceUsd, solPriceUpdatedAt, lobbyCache, requests,
              guildConfigs, cyc, requested, lastWrite, prevCall,
              watchHist, joinHist, pair, returned, evals, joined, alerts>>

refreshVars == <<refreshConfigs, rr>>

boardVars == <<lbIn, lbOut, lbPrev>>

priceVars == <<priceReq, priceLast>>

diskVars == <<disk, savedFrom>>

vars == <<pollVars, reachable, reply, refreshVars, boardVars, priceVars,
          diskVars>>

\* Poll cycles that can be in progress at once (setInterval does not wait for
\* the previous cycle); a specification starts some of them.
Cycles == {1, 2}
OneCycle == {1}
\* most requests in flight at once: one per cycle and polled lobby, and the calls
MaxInFlight == Cardinality(Cycles) * Cardinality(LobbyIdx) + MaxPending
\* guild ids; a specification takes its commands from some of them
Guilds == {1, 2}
OneGuild == {1}
\* the ids watch add hands out before the model stops it
WatchIds == {1, 2}

\* ----- helpers -----------------------------------------------------------
RemoveAt(s, i) == [j \in 1..(Len(s) - 1) |-> IF j < i THEN s[j] ELSE s[j + 1]]

SetMin(S) == CHOOSE x \in S : \A y \in S : x <= y

RECURSIVE SubSeqAt(_, _, _)
\* the elements of s at the indexes I that are >= from, in order
SubSeqAt(s, I, from) ==
  IF from > Len(s) THEN <<>>
  ELSE (IF from \in I THEN <<s[from]>> ELSE <<>>) \o SubSeqAt(s, I, from + 1)

\* ----- fetchLobbyPlayers ---------------------------------------------------
\* The placeholder of a lobby without endpoint.
NoApiSnapshot(l) ==
  [serverId |-> l.key, playerCount |-> 0, players |-> <<>>,
   timestamp |-> clock, lastFetched |-> clock, noApi |-> TRUE]

\* A variant that converts at rate 1 while no rate is stored.
UsdFromSolDefaultRate(p) ==
  IF p.monetaryValue = Null THEN Null
  ELSE IF solPriceUsd = Null THEN p.monetaryValue
  ELSE Some(Val(p.monetaryValue) * Val(solPriceUsd))

UsdFromSol(p) ==
  IF p.monetaryValue # Null /\ solPriceUsd # Null /\ Val(solPriceUsd) > 0
  THEN Some(Val(p.monetaryValue) * Val(solPriceUsd))
  ELSE Null

WithUsd(p) ==
  [privyId |-> p.privyId, id |-> p.id, name |-> p.name, size |-> p.size,
   monetaryValue |-> p.monetaryValue, usdFromSol |-> UsdFromSol(p)]

\* The snapshot built from a successful body.
MakeSnapshot(l, data) ==
  LET players == IF data.hasPlayers THEN data.players ELSE <<>> IN
  [serverId |-> IF data.serverId # "" THEN data.serverId ELSE l.key,
   playerCount |-> IF data.playerCount # Null THEN Val(data.playerCount)
                   ELSE Len(players),
   players |-> [i \in 1..Len(players) |-> WithUsd(players[i])],
   timestamp |-> IF data.timestamp # Null THEN Val(data.timestamp) ELSE clock,
   lastFetched |-> clock,
   noApi |-> FALSE]

\* Does the request settle into the success path of the try block?
FetchOk(o) == o.kind = "body" /\ o.body.success

\* (variant: a failed fetch drops the cached entry)
CacheAfterFetchClearing(cache, l, o) ==
  IF FetchOk(o) THEN [cache EXCEPT ![l.key] = Some(MakeSnapshot(l, o.body))]
  ELSE [cache EXCEPT ![l.key] = Null]

\* The cache after fetchLobbyPlayers handled outcome o of its request.
CacheAfterFetch(cache, l, o) ==
  IF FetchOk(o) THEN [cache EXCEPT ![l.key] = Some(MakeSnapshot(l, o.body))]
  ELSE cache

\* The value fetchLobbyPlayers returns for outcome o of its request.
FetchResult(l, o) == IF FetchOk(o) THEN Some(MakeSnapshot(l, o.body)) ELSE Null

\* (variant: the special case of a lobby without endpoint is missing)
NeedsRequestAlways(l) == TRUE

\* Does fetchLobbyPlayers go to the network for this lobby?
NeedsRequest(l) == HasUrl(l)

\* ----- getLobbySnapshot ----------------------------------------------------
\* (variant: the entry is taken as fresh only at the instant it was fetched)
IsFreshInstant(cache, k) ==
  /\ cache[k] # Null
  /\ clock - Val(cache[k]).lastFetched < 1

\* The freshness test on the cache entry.
IsFresh(cache, k) ==
  /\ cache[k] # Null
  /\ clock - Val(cache[k]).lastFetched < FreshMs

\* A variant that goes to the network whatever the cache holds.
SnapshotNowRefetching(l) ==
  IF NeedsRequest(l) THEN Null ELSE Some(NoApiSnapshot(l))

\* The value getLobbySnapshot returns without awaiting, for a fresh entry or
\* a lobby without endpoint (null stands for "a request is needed").
SnapshotNow(l) ==
  IF IsFresh(lobbyCache, l.key) THEN lobbyCache[l.key]
  ELSE IF NeedsRequest(l) THEN Null
  ELSE Some(NoApiSnapshot(l))

\* ----- guild configuration ------------------------------------------------
NewConfig(gid) ==
  [guildId |-> gid,
   alertChannelId |-> "",
   alertEnabled |-> [k \in Keys |-> FALSE],
   lastSeenPlayers |-> [k \in Keys |-> {}],
   watches |-> <<>>,
   nextWatchId |-> 1,
   pingRoleId |-> ""]

HasConfig(cfgs, gid) == \E i \in 1..Len(cfgs) : cfgs[i].guildId = gid

\* guildConfigs after getGuildConfig(gid): the entry is created on first use.
GetGuildConfig(cfgs, gid) ==
  IF HasConfig(cfgs, gid) THEN cfgs ELSE Append(cfgs, NewConfig(gid))

ConfigIdx(cfgs, gid) == CHOOSE i \in 1..Len(cfgs) : cfgs[i].guildId = gid

\* The config getGuildConfig returns for the guild: the stored one, or a new one.
ConfigOf(cfgs, gid) ==
  LET all == GetGuildConfig(cfgs, gid) IN all[ConfigIdx(all, gid)]

\* ----- the active-player filter --------------------------------------------
IsActive(p) == p.size # Null /\ Val(p.size) > ActiveSize

ActivePlayers(snapshot) == SelectSeq(snapshot.players, IsActive)

\* processJoinAlerts' own filter: typeof p.size === 'number' && p.size > 3
IsActiveJoin(p) == p.size # Null /\ Val(p.size) > 3

JoinActivePlayers(snapshot) == SelectSeq(snapshot.players, IsActiveJoin)

\* A variant of the leaderboard's filter that also shows size 3.
IsActiveLbAtLeast(p) == p.size # Null /\ Val(p.size) >= 3

\* The leaderboard's own filter: typeof p.size === 'number' && p.size > 3
IsActiveLb(p) == p.size # Null /\ Val(p.size) > 3

LbActivePlayers(snapshot) == SelectSeq(snapshot.players, IsActiveLb)

\* p.privyId || p.id
PlayerKey(p) == IF p.privyId # "" THEN p.privyId ELSE p.id

\* (variant: a configured alert channel is enough, resolved or not)
TenantOkUnresolved(cfg) == cfg.alertChannelId # ""

\* ----- the per-guild preamble of processJoinAlerts and processWatches -------
\* alertChannelId set, guild and channel resolved, channel text based.
TenantOk(cfg) == cfg.alertChannelId # "" /\ cfg.guildId \in reachable

\* index of the first guild at or after from whose preamble passes
NextGuild(cfgs, from) ==
  LET ok == {i \in from..Len(cfgs) : TenantOk(cfgs[i])} IN
  IF ok = {} THEN Len(cfgs) + 1 ELSE SetMin(ok)

\* ----- processJoinAlerts ---------------------------------------------------
\* (variant: every active identifier is reported, seen before or not)
JoinStepEveryone(cfg, cache, l) ==
  LET key == l.key
      snap == cache[key]
      skip == [cfg |-> cfg, joins |-> <<>>, count |-> 0, dets |-> {}]
      det(active, ids, joins) ==
        [cycle |-> 0, guildId |-> cfg.guildId, key |-> key,
         last |-> cfg.lastSeenPlayers[key], current |-> ids,
         active |-> active, joins |-> joins,
         before |-> joinHist[cfg.guildId][key]]
  IN
  IF ~cfg.alertEnabled[key] THEN skip
  ELSE IF snap = Null \/ Val(snap).noApi THEN skip
  ELSE
    LET active == JoinActivePlayers(Val(snap))
        currentIds == {PlayerKey(active[i]) : i \in 1..Len(active)} \ {""}
        lastSet == cfg.lastSeenPlayers[key]
        newIdx == {i \in 1..Len(active) :
                     /\ PlayerKey(active[i]) \in currentIds
                     /\ \A j \in 1..(i - 1) : PlayerKey(active[j]) # PlayerKey(active[i])}
    IN
    IF Len(active) = 0
    THEN [cfg |-> [cfg EXCEPT !.lastSeenPlayers[key] = {}], joins |-> <<>>,
          count |-> 0, dets |-> {det(active, {}, <<>>)}]
    ELSE [cfg |-> [cfg EXCEPT !.lastSeenPlayers[key] = currentIds],
          joins |-> SubSeqAt(active, newIdx, 1), count |-> Len(active),
          dets |-> {det(active, currentIds, SubSeqAt(active, newIdx, 1))}]

\* (variant: an empty lobby leaves the last-seen set alone)
JoinStepRemembering(cfg, cache, l) ==
  LET key == l.key
      snap == cache[key]
      skip == [cfg |-> cfg, joins |-> <<>>, count |-> 0, dets |-> {}]
      det(active, ids, joins) ==
        [cycle |-> 0, guildId |-> cfg.guildId, key |-> key,
         last |-> cfg.lastSeenPlayers[key], current |-> ids,
         active |-> active, joins |-> joins,
         before |-> joinHist[cfg.guildId][key]]
  IN
  IF ~cfg.alertEnabled[key] THEN skip
  ELSE IF snap = Null \/ Val(snap).noApi THEN skip
  ELSE
    LET active == JoinActivePlayers(Val(snap))
        currentIds == {PlayerKey(active[i]) : i \in 1..Len(active)} \ {""}
        lastSet == cfg.lastSeenPlayers[key]
        newIdx == {i \in 1..Len(active) :
                     /\ PlayerKey(active[i]) \in currentIds \ lastSet
                     /\ \A j \in 1..(i - 1) : PlayerKey(active[j]) # PlayerKey(active[i])}
    IN
    IF Len(active) = 0
    THEN [cfg |-> cfg, joins |-> <<>>,
          count |-> 0, dets |-> {det(active, {}, <<>>)}]
    ELSE [cfg |-> [cfg EXCEPT !.lastSeenPlayers[key] = currentIds],
          joins |-> SubSeqAt(active, newIdx, 1), count |-> Len(active),
          dets |-> {det(active, currentIds, SubSeqAt(active, newIdx, 1))}]

\* (variant: the last-seen set is replaced only when a join was found)
JoinStepOnJoinOnly(cfg, cache, l) ==
  LET key == l.key
      snap == cache[key]
      skip == [cfg |-> cfg, joins |-> <<>>, count |-> 0, dets |-> {}]
      det(active, ids, joins) ==
        [cycle |-> 0, guildId |-> cfg.guildId, key |-> key,
         last |-> cfg.lastSeenPlayers[key], current |-> ids,
         active |-> active, joins |-> joins,
         before |-> joinHist[cfg.guildId][key]]
  IN
  IF ~cfg.alertEnabled[key] THEN skip
  ELSE IF snap = Null \/ Val(snap).noApi THEN skip
  ELSE
    LET active == JoinActivePlayers(Val(snap))
        currentIds == {PlayerKey(active[i]) : i \in 1..Len(active)} \ {""}
        lastSet == cfg.lastSeenPlayers[key]
        newIdx == {i \in 1..Len(active) :
                     /\ PlayerKey(active[i]) \in currentIds \ lastSet
                     /\ \A j \in 1..(i - 1) : PlayerKey(active[j]) # PlayerKey(active[i])}
    IN
    IF Len(active) = 0
    THEN [cfg |-> [cfg EXCEPT !.lastSeenPlayers[key] = {}], joins |-> <<>>,
          count |-> 0, dets |-> {det(active, {}, <<>>)}]
    ELSE [cfg |-> [cfg EXCEPT !.lastSeenPlayers[key] =
                          IF newIdx = {} THEN lastSet ELSE currentIds],
          joins |-> SubSeqAt(active, newIdx, 1), count |-> Len(active),
          dets |-> {det(active, currentIds, SubSeqAt(active, newIdx, 1))}]

\* One iteration of the lobby loop: the config after it and the joins found.
JoinStep(cfg, cache, l) ==
  LET key == l.key
      snap == cache[key]
      skip == [cfg |-> cfg, joins |-> <<>>, count |-> 0, dets |-> {}]
      det(active, ids, joins) ==
        [cycle |-> 0, guildId |-> cfg.guildId, key |-> key,
         last |-> cfg.lastSeenPlayers[key], current |-> ids,
         active |-> active, joins |-> joins,
         before |-> joinHist[cfg.guildId][key]]
  IN
  IF ~cfg.alertEnabled[key] THEN skip
  ELSE IF snap = Null \/ Val(snap).noApi THEN skip
  ELSE
    LET active == JoinActivePlayers(Val(snap))
        currentIds == {PlayerKey(active[i]) : i \in 1..Len(active)} \ {""}
        lastSet == cfg.lastSeenPlayers[key]
        newIdx == {i \in 1..Len(active) :
                     /\ PlayerKey(active[i]) \in currentIds \ lastSet
                     /\ \A j \in 1..(i - 1) : PlayerKey(active[j]) # PlayerKey(active[i])}
    IN
    IF Len(active) = 0
    THEN [cfg |-> [cfg EXCEPT !.lastSeenPlayers[key] = {}], joins |-> <<>>,
          count |-> 0, dets |-> {det(active, {}, <<>>)}]
    ELSE [cfg |-> [cfg EXCEPT !.lastSeenPlayers[key] = currentIds],
          joins |-> SubSeqAt(active, newIdx, 1), count |-> Len(active),
          dets |-> {det(active, currentIds, SubSeqAt(active, newIdx, 1))}]

RECURSIVE ScanJoins(_, _, _, _)
\* The loops of processJoinAlerts from guild index g, after lobby index li,
\* up to the first channel.send or to the end.
ScanJoins(cfgs, cache, g, li) ==
  IF g > Len(cfgs)
  THEN [cfgs |-> cfgs, send |-> FALSE, g |-> 0, l |-> 0, joins |-> <<>>,
        dets |-> {}]
  ELSE IF li >= Len(LOBBIES)
  THEN ScanJoins(cfgs, cache, NextGuild(cfgs, g + 1), 0)
  ELSE IF (li + 1) \notin LobbyIdx
  THEN ScanJoins(cfgs, cache, g, li + 1)
  ELSE
    LET r == JoinStep(cfgs[g], cache, LOBBIES[li + 1])
        next == [cfgs EXCEPT ![g] = r.cfg]
    IN
    IF r.joins # <<>>
    THEN [cfgs |-> next, send |-> TRUE, g |-> g, l |-> li + 1, joins |-> r.joins,
          dets |-> r.dets]
    ELSE LET rest == ScanJoins(next, cache, g, li + 1)
         IN [rest EXCEPT !.dets = @ \cup r.dets]

\* ----- processWatches ------------------------------------------------------
\* (variant: the interval must be exceeded, not reached)
CooldownOverStrict(watch, now) ==
  LET intervalMs == watch.intervalMinutes * 60 * 1000
      lastMs == IF watch.lastAlertAt # Null THEN Val(watch.lastAlertAt) ELSE 0
  IN watch.lastAlertAt = Null \/ now - lastMs > intervalMs

\* (variant: no cooldown)
CooldownOverAlways(watch, now) == TRUE

\* (variant: a watch that has fired never fires again)
CooldownOverOnce(watch, now) == watch.lastAlertAt = Null

\* The cooldown test of a watch whose threshold is met.
CooldownOver(watch, now) ==
  LET intervalMs == watch.intervalMinutes * 60 * 1000
      lastMs == IF watch.lastAlertAt # Null THEN Val(watch.lastAlertAt) ELSE 0
  IN watch.lastAlertAt = Null \/ now - lastMs >= intervalMs

\* (variant: a count equal to the threshold does not meet it)
WatchOutcomeAbove(watch, cache, now) ==
  LET snap == cache[watch.lobbyKey] IN
  IF ~(\E l \in Lobbies : l.key = watch.lobbyKey) THEN "skip"
  ELSE IF snap = Null \/ Val(snap).noApi THEN "skip"
  ELSE IF Len(ActivePlayers(Val(snap))) <= watch.threshold THEN "below"
  ELSE IF CooldownOver(watch, now) THEN "fire"
  ELSE "cooldown"

\* The outcome of one iteration of the watch loop.
WatchOutcome(watch, cache, now) ==
  LET snap == cache[watch.lobbyKey] IN
  IF ~(\E l \in Lobbies : l.key = watch.lobbyKey) THEN "skip"
  ELSE IF snap = Null \/ Val(snap).noApi THEN "skip"
  ELSE IF Len(ActivePlayers(Val(snap))) < watch.threshold THEN "below"
  ELSE IF CooldownOver(watch, now) THEN "fire"
  ELSE "cooldown"

\* What the history keeps of one evaluation.
EvalRecord(cfg, watch, cache, now, hist) ==
  LET snap == cache[watch.lobbyKey] IN
  [cycle |-> 0, guildId |-> cfg.guildId, id |-> watch.id, now |-> now,
   usable |-> snap # Null /\ ~Val(snap).noApi,
   count |-> IF snap = Null THEN 0 ELSE Len(ActivePlayers(Val(snap))),
   threshold |-> watch.threshold,
   intervalMinutes |-> watch.intervalMinutes,
   last |-> watch.lastAlertAt,
   out |-> WatchOutcome(watch, cache, now),
   prev |-> hist[cfg.guildId][watch.id].prev,
   sent |-> hist[cfg.guildId][watch.id].sent]

RECURSIVE ScanWatches(_, _, _, _, _, _)
\* The loops of processWatches from guild index g, after watch id w, up to
\* the first channel.send or to the end.
ScanWatches(cfgs, cache, now, hist, g, w) ==
  IF g > Len(cfgs)
  THEN [fire |-> FALSE, g |-> 0, w |-> 0, evals |-> {}]
  ELSE
    LET ws == cfgs[g].watches
        rest == {i \in 1..Len(ws) : ws[i].id > w}
    IN
    IF rest = {}
    THEN ScanWatches(cfgs, cache, now, hist, NextGuild(cfgs, g + 1), 0)
    ELSE
      LET watch == ws[SetMin(rest)]
          ev == EvalRecord(cfgs[g], watch, cache, now, hist)
      IN
      IF ev.out = "fire"
      THEN [fire |-> TRUE, g |-> g, w |-> watch.id, evals |-> {ev}]
      ELSE LET r == ScanWatches(cfgs, cache, now, hist, g, watch.id)
           IN [r EXCEPT !.evals = @ \cup {ev}]

\* ----- pollLobbiesAndProcessAlerts ------------------------------------------
Idle == [pc |-> "idle", now |-> 0, g |-> 0, w |-> 0, l |-> 0]

HistAfter(hist, evs) ==
  [gid \in Guilds |-> [id \in WatchIds |->
     IF \E e \in evs : e.guildId = gid /\ e.id = id
     THEN [hist[gid][id] EXCEPT
             !.prev = (CHOOSE e \in evs : e.guildId = gid /\ e.id = id).out]
     ELSE hist[gid][id]]]

\* (variant: an evaluation held back by the cooldown restarts the cooldown)
RunWatchesRestarting(cfgs, cache, now, hist, g, w) ==
  LET r == ScanWatches(cfgs, cache, now, hist, g, w)
      held(gid, id) == \E e \in r.evals :
                         e.guildId = gid /\ e.id = id /\ e.out = "cooldown"
  IN
  [cfgs |-> [i \in 1..Len(cfgs) |->
               [cfgs[i] EXCEPT !.watches =
                  [j \in 1..Len(cfgs[i].watches) |->
                     IF held(cfgs[i].guildId, cfgs[i].watches[j].id)
                     THEN [cfgs[i].watches[j] EXCEPT !.lastAlertAt = Some(now)]
                     ELSE cfgs[i].watches[j]]]],
   st |-> IF r.fire
          THEN [pc |-> "watchSend", now |-> now, g |-> r.g, w |-> r.w, l |-> 0]
          ELSE Idle,
   evals |-> r.evals,
   hist |-> HistAfter(hist, r.evals),
   dets |-> {},
   jhist |-> joinHist]

\* processWatches from (g, w) with its captured now, up to the next send.
RunWatches(cfgs, cache, now, hist, g, w) ==
  LET r == ScanWatches(cfgs, cache, now, hist, g, w) IN
  [cfgs |-> cfgs,
   st |-> IF r.fire
          THEN [pc |-> "watchSend", now |-> now, g |-> r.g, w |-> r.w, l |-> 0]
          ELSE Idle,
   evals |-> r.evals,
   hist |-> HistAfter(hist, r.evals),
   dets |-> {},
   jhist |-> joinHist]

\* What the history keeps of a (guild, lobby) after a join detection: how it
\* ended, the identifiers it saw, those an empty lobby made it forget, and
\* whether alerts were switched off since.
NoDetection == [prev |-> "none", cur |-> {}, wiped |-> {}, off |-> FALSE]

JoinHistAfter(jh, dets) ==
  [gid \in Guilds |-> [k \in Keys |->
     IF \E d \in dets : d.guildId = gid /\ d.key = k
     THEN LET d == CHOOSE x \in dets : x.guildId = gid /\ x.key = k IN
          [prev |-> IF Len(d.active) = 0 THEN "empty" ELSE "some",
           cur |-> d.current,
           wiped |-> IF Len(d.active) = 0 THEN d.last ELSE {},
           off |-> FALSE]
     ELSE jh[gid][k]]]

\* processJoinAlerts from (g, li) up to the next send; when its loops end,
\* processWatches starts and takes its now.
RunJoins(cfgs, cache, g, li) ==
  LET r == ScanJoins(cfgs, cache, g, li)
      jhist == JoinHistAfter(joinHist, r.dets)
  IN
  IF r.send
  THEN [cfgs |-> r.cfgs,
        st |-> [pc |-> "joinSend", now |-> 0, g |-> r.g, w |-> 0, l |-> r.l],
        evals |-> {},
        hist |-> watchHist,
        dets |-> r.dets,
        jhist |-> jhist]
  ELSE [RunWatches(r.cfgs, cache, clock, watchHist, NextGuild(r.cfgs, 1), 0)
          EXCEPT !.dets = r.dets, !.jhist = jhist]

\* The rest of the cycle once Promise.all has resolved.
AfterFetches(cache) == RunJoins(guildConfigs, cache, NextGuild(guildConfigs, 1), 0)

Continue(c, k) ==
  /\ guildConfigs' = k.cfgs
  /\ cyc' = [cyc EXCEPT ![c] = k.st]
  /\ evals' = {[e EXCEPT !.cycle = c] : e \in k.evals}
  /\ watchHist' = k.hist
  /\ joined' = {[d EXCEPT !.cycle = c] : d \in k.dets}
  /\ joinHist' = k.jhist

\* (variant: the poll cycle leaves a lobby with a fresh snapshot alone)
PollIssuesUnlessFresh(l) == NeedsRequest(l) /\ ~IsFresh(lobbyCache, l.key)

\* Does the poll cycle's fetchLobbyPlayers(lobby) issue a request?
PollIssues(l) == NeedsRequest(l)

RECURSIVE PollRequests(_, _, _)
\* The requests one cycle issues for the lobbies L, in LOBBIES order.
PollRequests(c, L, i) ==
  IF i > Len(LOBBIES) THEN <<>>
  ELSE (IF i \in L /\ PollIssues(LOBBIES[i])
        THEN <<[key |-> LOBBIES[i].key, by |-> "poll", who |-> c, at |-> 0,
                stale |-> FALSE]>>
        ELSE <<>>) \o PollRequests(c, L, i + 1)

RECURSIVE PollReturns(_, _)
\* What fetchLobbyPlayers returns at once, for the lobbies without endpoint.
PollReturns(L, i) ==
  IF i > Len(LOBBIES) THEN <<>>
  ELSE (IF i \in L /\ ~NeedsRequest(LOBBIES[i])
        THEN <<[fn |-> "fetchLobbyPlayers", key |-> LOBBIES[i].key, path |-> "synth",
                val |-> Some(NoApiSnapshot(LOBBIES[i]))]>>
        ELSE <<>>) \o PollReturns(L, i + 1)

\* The 5-second timer fires: every lobby (of L) is fetched.
PollStart(c, L) ==
  /\ cyc[c].pc = "idle"
  /\ LET reqs == PollRequests(c, L, 1)
         rets == PollReturns(L, 1)
         cache == [k \in Keys |->
                     IF \E i \in 1..Len(rets) : rets[i].key = k
                     THEN Some(NoApiSnapshot(LobbyOf(k))) ELSE lobbyCache[k]]
     IN
     /\ lobbyCache' = cache
     /\ returned' = rets
     /\ requests' = requests \o reqs
     /\ requested' = [k \in Keys |->
                        requested[k] \/ \E i \in 1..Len(reqs) : reqs[i].key = k]
     /\ IF reqs = <<>>
        THEN Continue(c, AfterFetches(cache))
        ELSE /\ cyc' = [cyc EXCEPT ![c] = [Idle EXCEPT !.pc = "fetching"]]
             /\ evals' = {} /\ joined' = {}
             /\ UNCHANGED <<guildConfigs, watchHist, joinHist>>
  /\ pair' = Null /\ reply' = "none" /\ alerts' = {}
  /\ UNCHANGED <<refreshVars, boardVars, priceVars, diskVars>>
  /\ UNCHANGED <<clock, solPriceUsd, solPriceUpdatedAt, reachable, lastWrite, prevCall>>

\* The in-flight requests after request i settled: it leaves, and after a
\* cache write the others of its lobby are older or newer than the writer.
RequestsAfter(i, wrote) ==
  LET key == requests[i].key
      mark == [j \in 1..Len(requests) |->
                 IF wrote /\ requests[j].key = key
                 THEN [requests[j] EXCEPT !.stale = (j < i)]
                 ELSE requests[j]]
  IN RemoveAt(mark, i)

\* (variant: the cycle goes on as soon as one of its fetches has settled)
StillFetchingNever(left, c) == FALSE

\* Promise.all of cycle c is still pending: left are the requests in flight.
StillFetching(left, c) ==
  \E j \in 1..Len(left) : left[j].by = "poll" /\ left[j].who = c

\* An axios request settles: the rest of fetchLobbyPlayers runs, then the
\* code awaiting it.
FetchSettle(i, o) ==
  /\ i \in 1..Len(requests)
  /\ requests[i].by # "button"
  /\ LET r == requests[i]
         l == LobbyOf(r.key)
         cache == CacheAfterFetch(lobbyCache, l, o)
         left == RequestsAfter(i, FetchOk(o))
         ret == [fn |-> "fetchLobbyPlayers", key |-> r.key,
                 path |-> IF FetchOk(o) THEN "ok" ELSE "fail",
                 val |-> FetchResult(l, o)]
     IN
     /\ lobbyCache' = cache
     /\ requests' = left
     /\ lastWrite' = IF ~FetchOk(o) THEN lastWrite
                     ELSE [lastWrite EXCEPT ![r.key] =
                             IF lobbyCache[r.key] = Null THEN "first"
                             ELSE IF r.stale THEN "older" ELSE "newer"]
     /\ IF r.by = "lb"
        THEN /\ returned' = <<ret, [ret EXCEPT !.fn = "getLobbySnapshot"]>>
             /\ prevCall' = [prevCall EXCEPT ![r.key] =
                               Some([at |-> r.at, doneAt |-> clock, issued |-> TRUE,
                                     ok |-> FetchOk(o)])]
             /\ reply' = IF FetchOk(o) THEN "board" ELSE "error"
             /\ evals' = {} /\ joined' = {}
             /\ UNCHANGED <<guildConfigs, cyc, watchHist, joinHist>>
        ELSE /\ returned' = <<ret>>
             /\ reply' = "none"
             /\ UNCHANGED prevCall
             /\ IF StillFetching(left, r.who)
                THEN /\ evals' = {} /\ joined' = {}
                     /\ UNCHANGED <<guildConfigs, cyc, watchHist, joinHist>>
                ELSE Continue(r.who, AfterFetches(cache))
  /\ pair' = Null /\ alerts' = {}
  /\ UNCHANGED <<refreshVars, boardVars, priceVars, diskVars>>
  /\ UNCHANGED <<clock, solPriceUsd, solPriceUpdatedAt, reachable, requested>>

\* (variant: a join notification that cannot be sent empties the lobby's
\* last-seen set, so that the join is detected again)
SendSettleForgetting(c, ok) ==
  /\ cyc[c].pc \in {"joinSend", "watchSend"}
  /\ ~ok
  /\ cyc' = [cyc EXCEPT ![c] = Idle]
  /\ guildConfigs' =
       IF cyc[c].pc = "joinSend"
       THEN [guildConfigs EXCEPT ![cyc[c].g].lastSeenPlayers[LOBBIES[cyc[c].l].key] = {}]
       ELSE guildConfigs
  /\ evals' = {} /\ joined' = {} /\ alerts' = {}
  /\ UNCHANGED <<watchHist, joinHist>>
  /\ pair' = Null /\ returned' = <<>> /\ reply' = "none"
  /\ UNCHANGED <<refreshVars, boardVars, priceVars, diskVars>>
  /\ UNCHANGED <<clock, solPriceUsd, solPriceUpdatedAt, lobbyCache, requests,
                 reachable, requested, lastWrite, prevCall>>

\* (variant: the watch is stamped although its alert could not be sent)
SendSettleStamping(c, ok) ==
  /\ cyc[c].pc = "watchSend"
  /\ ~ok
  /\ cyc' = [cyc EXCEPT ![c] = Idle]
  /\ guildConfigs' =
       [guildConfigs EXCEPT ![cyc[c].g].watches =
          [i \in 1..Len(@) |->
             IF @[i].id = cyc[c].w THEN [@[i] EXCEPT !.lastAlertAt = Some(clock)]
             ELSE @[i]]]
  /\ evals' = {} /\ joined' = {} /\ alerts' = {}
  /\ UNCHANGED <<watchHist, joinHist>>
  /\ pair' = Null /\ returned' = <<>> /\ reply' = "none"
  /\ UNCHANGED <<refreshVars, boardVars, priceVars, diskVars>>
  /\ UNCHANGED <<clock, solPriceUsd, solPriceUpdatedAt, lobbyCache, requests,
                 reachable, requested, lastWrite, prevCall>>

\* A channel.send of a cycle settles: on success the loop goes on, on
\* failure the exception ends the cycle in the catch of the poll function.
SendSettle(c, ok) ==
  /\ cyc[c].pc \in {"joinSend", "watchSend"}
  /\ IF ~ok
     THEN /\ cyc' = [cyc EXCEPT ![c] = Idle]
          /\ evals' = {} /\ joined' = {} /\ alerts' = {}
          /\ UNCHANGED <<guildConfigs, watchHist, joinHist>>
     ELSE IF cyc[c].pc = "joinSend"
     THEN /\ Continue(c, RunJoins(guildConfigs, lobbyCache, cyc[c].g, cyc[c].l))
          /\ alerts' = {}
     ELSE
       LET g == cyc[c].g
           w == cyc[c].w
           gid == guildConfigs[g].guildId
           ws == guildConfigs[g].watches
           cfgs == [guildConfigs EXCEPT ![g].watches =
                      [i \in 1..Len(ws) |->
                         IF ws[i].id = w
                         THEN [ws[i] EXCEPT !.lastAlertAt = Some(clock)]
                         ELSE ws[i]]]
           hist == [watchHist EXCEPT ![gid][w].sent = Some(clock)]
       IN
       /\ alerts' = {[guildId |-> gid, id |-> w, now |-> cyc[c].now, at |-> clock]}
       /\ Continue(c, RunWatches(cfgs, lobbyCache, cyc[c].now, hist, g, w))
  /\ pair' = Null /\ returned' = <<>> /\ reply' = "none"
  /\ UNCHANGED <<refreshVars, boardVars, priceVars, diskVars>>
  /\ UNCHANGED <<clock, solPriceUsd, solPriceUpdatedAt, lobbyCache, requests,
                 reachable, requested, lastWrite, prevCall>>

\* ----- the lb command -------------------------------------------------------
PendingCalls == {i \in 1..Len(requests) : requests[i].by = "lb"}

\* handleLbCommand with valid arguments for lobby l.
LbCommand(l) ==
  /\ Cardinality(PendingCalls) < MaxPending
  /\ IF ~HasUrl(l)
     THEN /\ reply' = "noapi"
          /\ returned' = <<>>
          /\ pair' = Null
          /\ UNCHANGED <<requests, requested, prevCall>>
     ELSE
       LET now == SnapshotNow(l)
           this == [at |-> clock, doneAt |-> clock, issued |-> now = Null, ok |-> TRUE]
       IN
       /\ pair' = IF prevCall[l.key] = Null THEN Null
                  ELSE Some([first |-> Val(prevCall[l.key]), at |-> clock,
                             issued |-> now = Null])
       /\ IF now # Null
          THEN /\ prevCall' = [prevCall EXCEPT ![l.key] = Some(this)]
               /\ returned' = <<[fn |-> "getLobbySnapshot", key |-> l.key,
                                 path |-> "hit", val |-> now]>>
               /\ reply' = IF Val(now).noApi THEN "error" ELSE "board"
               /\ UNCHANGED <<requests, requested>>
          ELSE /\ requests' = Append(requests, [key |-> l.key, by |-> "lb", who |-> 0,
                                                at |-> clock, stale |-> FALSE])
               /\ requested' = [requested EXCEPT ![l.key] = TRUE]
               /\ returned' = <<>>
               /\ reply' = "none"
               /\ UNCHANGED prevCall
  /\ evals' = {} /\ joined' = {} /\ alerts' = {}
  /\ UNCHANGED <<refreshVars, boardVars, priceVars, diskVars>>
  /\ UNCHANGED <<clock, solPriceUsd, solPriceUpdatedAt, lobbyCache, guildConfigs,
                 reachable, cyc, lastWrite, watchHist, joinHist>>

\* ----- the alert and watch commands ------------------------------------------
\* A command handler that touches only the guild configuration; jh is the
\* history of join detections after it.
ConfigStep(cfgs, title, jh) ==
  /\ guildConfigs' = cfgs
  /\ reply' = title
  /\ joinHist' = jh
  /\ pair' = Null /\ returned' = <<>> /\ evals' = {} /\ joined' = {} /\ alerts' = {}
  /\ UNCHANGED <<refreshVars, boardVars, priceVars, diskVars>>
  /\ UNCHANGED <<clock, solPriceUsd, solPriceUpdatedAt, lobbyCache, requests,
                 reachable, cyc, requested, lastWrite, prevCall, watchHist>>

ConfigCommand(cfgs, title) == ConfigStep(cfgs, title, joinHist)

\* (variant: join alerts are enabled whether or not a channel is set)
AlertOnWithoutChannel(gid, l) ==
  LET cfgs == GetGuildConfig(guildConfigs, gid)
      g == ConfigIdx(cfgs, gid)
  IN
  IF ~HasUrl(l) THEN ConfigCommand(cfgs, "No API")
  ELSE ConfigCommand([cfgs EXCEPT ![g].alertEnabled[l.key] = TRUE],
                     "Join alerts enabled")

\* handleAlertCommand, sub-command on, with a lobby and region of LOBBIES.
AlertOn(gid, l) ==
  LET cfgs == GetGuildConfig(guildConfigs, gid)
      g == ConfigIdx(cfgs, gid)
  IN
  IF ~HasUrl(l) THEN ConfigCommand(cfgs, "No API")
  ELSE IF cfgs[g].alertChannelId = "" THEN ConfigCommand(cfgs, "Alert channel not set")
  ELSE ConfigCommand([cfgs EXCEPT ![g].alertEnabled[l.key] = TRUE],
                     "Join alerts enabled")

\* (variant: switching join alerts off keeps the lobby's last-seen set)
AlertOffKeepingSeen(gid, l) ==
  LET cfgs == GetGuildConfig(guildConfigs, gid)
      g == ConfigIdx(cfgs, gid)
  IN
  IF ~HasUrl(l) THEN ConfigCommand(cfgs, "No API")
  ELSE IF ~cfgs[g].alertEnabled[l.key]
  THEN ConfigCommand(cfgs, "Join alerts already disabled")
  ELSE ConfigStep([cfgs EXCEPT ![g].alertEnabled[l.key] = FALSE],
                  "Join alerts disabled",
                  [joinHist EXCEPT ![gid][l.key].off = TRUE])

\* handleAlertCommand, sub-command off, with a lobby and region of LOBBIES.
AlertOff(gid, l) ==
  LET cfgs == GetGuildConfig(guildConfigs, gid)
      g == ConfigIdx(cfgs, gid)
  IN
  IF ~HasUrl(l) THEN ConfigCommand(cfgs, "No API")
  ELSE IF ~cfgs[g].alertEnabled[l.key]
  THEN ConfigCommand(cfgs, "Join alerts already disabled")
  ELSE ConfigStep([cfgs EXCEPT ![g].alertEnabled[l.key] = FALSE,
                               ![g].lastSeenPlayers[l.key] = {}],
                  "Join alerts disabled",
                  [joinHist EXCEPT ![gid][l.key].off = TRUE])

\* handleAlertCommand, sub-command channel; valid: a text channel is mentioned.
AlertChannel(gid, valid) ==
  LET cfgs == GetGuildConfig(guildConfigs, gid)
      g == ConfigIdx(cfgs, gid)
  IN
  IF ~valid THEN ConfigCommand(cfgs, "Invalid channel")
  ELSE ConfigCommand([cfgs EXCEPT ![g].alertChannelId = "chan"], "Alert channel set")

\* The watch that watch add stores.
NewWatch(id, l, threshold, minutes) ==
  [id |-> id, lobbyKey |-> l.key, threshold |-> threshold,
   intervalMinutes |-> minutes, lastAlertAt |-> Null]

\* handleWatchCommand, sub-command add, with a lobby and region of LOBBIES.
WatchAdd(gid, l, threshold, minutes) ==
  LET cfgs == GetGuildConfig(guildConfigs, gid)
      g == ConfigIdx(cfgs, gid)
      id == cfgs[g].nextWatchId
  IN
  IF threshold < 1 THEN ConfigCommand(cfgs, "Invalid threshold")
  ELSE IF minutes < 1 THEN ConfigCommand(cfgs, "Invalid minutes")
  ELSE IF ~HasUrl(l) THEN ConfigCommand(cfgs, "No API")
  ELSE
    /\ id \in WatchIds
    /\ ConfigCommand([cfgs EXCEPT
                        ![g].nextWatchId = id + 1,
                        ![g].watches = Append(@, NewWatch(id, l, threshold, minutes))],
                     "Watch created")

\* LOBBIES.find(l => l.region === region && l.lobby === lobby)
findLobby(region, lobby) ==
  LET found == {i \in 1..Len(LOBBIES) :
                  LOBBIES[i].region = region /\ LOBBIES[i].lobby = lobby}
  IN IF found = {} THEN Null ELSE Some(LOBBIES[SetMin(found)])

\* (variant: any whole number passes, zero and negative ones too)
IsWholeNumber(n) == n # Null

\* Number.isInteger(n) && n >= 1 for the result n of parseInt, with NaN as Null.
IsWholeAtLeastOne(n) == n # Null /\ Val(n) >= 1

\* handleWatchCommand, sub-command add, with its four arguments as parseInt
\* and toLowerCase left them.
WatchAddArgs(gid, lobbyNum, region, threshold, minutes) ==
  LET cfgs == GetGuildConfig(guildConfigs, gid)
      g == ConfigIdx(cfgs, gid)
      id == cfgs[g].nextWatchId
      lobbyDef == findLobby(region, Val(lobbyNum))
  IN
  IF lobbyNum \notin {Some(1), Some(5), Some(20)} \/ region \notin {"us", "eu"}
  THEN ConfigCommand(cfgs, "Invalid arguments")
  ELSE IF ~IsWholeAtLeastOne(threshold) THEN ConfigCommand(cfgs, "Invalid threshold")
  ELSE IF ~IsWholeAtLeastOne(minutes) THEN ConfigCommand(cfgs, "Invalid minutes")
  ELSE IF lobbyDef = Null THEN ConfigCommand(cfgs, "Error")
  ELSE IF ~HasUrl(Val(lobbyDef)) THEN ConfigCommand(cfgs, "No API")
  ELSE
    /\ id \in WatchIds
    /\ ConfigCommand([cfgs EXCEPT
                        ![g].nextWatchId = id + 1,
                        ![g].watches = Append(@, NewWatch(id, Val(lobbyDef),
                                                          Val(threshold), Val(minutes)))],
                     "Watch created")

\* A variant of the lookup that finds any id as soon as a watch is stored.
HasWatchAny(cfg, id) == Len(cfg.watches) > 0

\* cfg.watches.has(id)
HasWatch(cfg, id) == \E i \in 1..Len(cfg.watches) : cfg.watches[i].id = id

\* cfg.watches.delete(id)
WithoutWatch(cfg, id) ==
  [cfg EXCEPT !.watches = SelectSeq(@, LAMBDA w : w.id # id)]

\* handleWatchCommand, sub-command remove, with a number as argument.
WatchRemove(gid, id) ==
  LET cfgs == GetGuildConfig(guildConfigs, gid)
      g == ConfigIdx(cfgs, gid)
  IN IF ~HasWatch(cfgs[g], id) THEN ConfigCommand(cfgs, "Watch not found")
     ELSE ConfigCommand([cfgs EXCEPT ![g] = WithoutWatch(@, id)], "Watch removed")

\* A variant of clear that also starts the numbering again.
ClearedRenumbering(cfg) == [cfg EXCEPT !.watches = <<>>, !.nextWatchId = 1]

\* cfg.watches.clear()
Cleared(cfg) == [cfg EXCEPT !.watches = <<>>]

\* handleWatchCommand, sub-command clear.
WatchClear(gid) ==
  LET cfgs == GetGuildConfig(guildConfigs, gid)
      g == ConfigIdx(cfgs, gid)
  IN IF Len(cfgs[g].watches) = 0 THEN ConfigCommand(cfgs, "No watches to clear")
     ELSE ConfigCommand([cfgs EXCEPT ![g] = Cleared(@)], "Watches cleared")

\* The ids a remove command is given: those assigned and one never assigned.
RemoveIds == WatchIds \cup {Cardinality(WatchIds) + 1}

\* Every guild keeps at most n watches after the step.
AtMostWatches(n) ==
  \A g \in 1..Len(guildConfigs') : Len(guildConfigs'[g].watches) <= n

\* ----- the Discord cache -------------------------------------------------------
\* The guild or its alert channel stops or starts being resolvable.
ChannelFlip(gid) ==
  /\ reachable' = IF gid \in reachable THEN reachable \ {gid} ELSE reachable \cup {gid}
  /\ pair' = Null /\ returned' = <<>> /\ reply' = "none"
  /\ evals' = {} /\ joined' = {} /\ alerts' = {}
  /\ UNCHANGED <<refreshVars, boardVars, priceVars, diskVars>>
  /\ UNCHANGED <<clock, solPriceUsd, solPriceUpdatedAt, lobbyCache, requests,
                 guildConfigs, cyc, requested, lastWrite, prevCall, watchHist, joinHist>>

\* ----- time ------------------------------------------------------------------
Tick(step, max) ==
  /\ clock + step <= max * step
  /\ clock' = clock + step
  /\ pair' = Null /\ returned' = <<>> /\ reply' = "none"
  /\ evals' = {} /\ joined' = {} /\ alerts' = {}
  /\ UNCHANGED <<refreshVars, boardVars, priceVars, diskVars>>
  /\ UNCHANGED <<solPriceUsd, solPriceUpdatedAt, lobbyCache, requests, guildConfigs,
                 reachable, cyc, requested, lastWrite, prevCall, watchHist, joinHist>>

TickCache == Tick(CacheTickMs, MaxCacheTicks)

TickWatch == Tick(WatchTickMs, MaxWatchTicks)

\* ----- the SOL price cache (refreshSolPrice) --------------------------------
\* getTime() of an Invalid Date, which new Date() makes of an unparseable value.
InvalidTime == 0 - 1

\* getTime() of the lastUpdated a response carries when it parses.
UpstreamTime == 1

\* res.data of the price endpoint: price is null unless it is a number;
\* lastUpdated is absent, a date, or a value new Date() cannot parse.
PriceBodies ==
  [success : BOOLEAN, price : {Null, Some(0), Some(2)},
   lastUpdated : {"absent", "date", "garbage"}]

PriceOutcomes == {[kind |-> "timeout"]} \cup [kind : {"body"}, body : PriceBodies]

\* res.data && res.data.success && typeof res.data.price === 'number'
PriceOk(o) == o.kind = "body" /\ o.body.success /\ o.body.price # Null

\* A variant that takes the price of a body that does not report success.
PriceOkAnyBody(o) == o.kind = "body" /\ o.body.price # Null

\* res.data.lastUpdated ? new Date(res.data.lastUpdated) : new Date()
PriceTime(body, now) ==
  CASE body.lastUpdated = "absent" -> now
    [] body.lastUpdated = "date" -> UpstreamTime
    [] OTHER -> InvalidTime

\* setInterval(refreshSolPrice, 60 * 1000), and the call at startup: the
\* request is issued. Its 5000 ms timeout settles it before the next call.
PriceStart ==
  /\ ~priceReq
  /\ priceReq' = TRUE
  /\ reply' = "none" /\ pair' = Null /\ returned' = <<>>
  /\ evals' = {} /\ joined' = {} /\ alerts' = {}
  /\ UNCHANGED <<clock, solPriceUsd, solPriceUpdatedAt, lobbyCache, requests,
                 guildConfigs, cyc, requested, lastWrite, prevCall, watchHist,
                 joinHist, reachable, refreshVars, boardVars, priceLast,
                 diskVars>>

\* (variant: a refresh that cannot use the response forgets the rate)
PriceSettleForgetting(o) ==
  /\ priceReq
  /\ priceReq' = FALSE
  /\ priceLast' = Some(o)
  /\ IF PriceOk(o)
     THEN /\ solPriceUsd' = o.body.price
          /\ solPriceUpdatedAt' = Some(PriceTime(o.body, clock))
     ELSE /\ solPriceUsd' = Null
          /\ UNCHANGED solPriceUpdatedAt
  /\ reply' = "none" /\ pair' = Null /\ returned' = <<>>
  /\ evals' = {} /\ joined' = {} /\ alerts' = {}
  /\ UNCHANGED <<clock, lobbyCache, requests, guildConfigs, cyc, requested,
                 lastWrite, prevCall, watchHist, joinHist, reachable,
                 refreshVars, boardVars, diskVars>>

\* (variant: a refresh that takes a new rate converts the cached snapshots'
\* players again)
PriceSettleRepricing(o) ==
  /\ priceReq
  /\ priceReq' = FALSE
  /\ priceLast' = Some(o)
  /\ IF PriceOk(o)
     THEN /\ solPriceUsd' = o.body.price
          /\ solPriceUpdatedAt' = Some(PriceTime(o.body, clock))
          /\ lobbyCache' =
               [k \in Keys |->
                  IF lobbyCache[k] = Null THEN Null
                  ELSE LET old == Val(lobbyCache[k]).players
                           usd(q) == IF q.monetaryValue # Null /\ Val(o.body.price) > 0
                                     THEN Some(Val(q.monetaryValue) * Val(o.body.price))
                                     ELSE Null
                       IN Some([Val(lobbyCache[k]) EXCEPT !.players =
                                  [i \in 1..Len(old) |->
                                     [old[i] EXCEPT !.usdFromSol = usd(old[i])]]])]
     ELSE UNCHANGED <<solPriceUsd, solPriceUpdatedAt, lobbyCache>>
  /\ reply' = "none" /\ pair' = Null /\ returned' = <<>>
  /\ evals' = {} /\ joined' = {} /\ alerts' = {}
  /\ UNCHANGED <<clock, requests, guildConfigs, cyc, requested,
                 lastWrite, prevCall, watchHist, joinHist, reachable,
                 refreshVars, boardVars, diskVars>>

\* The request settles. In the success branch both assignments are made
\* before the log line, whose toISOString() throws on an Invalid Date into
\* the catch; every other outcome only logs.
PriceSettle(o) ==
  /\ priceReq
  /\ priceReq' = FALSE
  /\ priceLast' = Some(o)
  /\ IF PriceOk(o)
     THEN /\ solPriceUsd' = o.body.price
          /\ solPriceUpdatedAt' = Some(PriceTime(o.body, clock))
     ELSE UNCHANGED <<solPriceUsd, solPriceUpdatedAt>>
  /\ reply' = "none" /\ pair' = Null /\ returned' = <<>>
  /\ evals' = {} /\ joined' = {} /\ alerts' = {}
  /\ UNCHANGED <<clock, lobbyCache, requests, guildConfigs, cyc, requested,
                 lastWrite, prevCall, watchHist, joinHist, reachable,
                 refreshVars, boardVars, diskVars>>

\* solPriceStatusLine: the text, or the RangeError toISOString() throws.
solPriceStatusLine ==
  IF solPriceUsd = Null \/ Val(solPriceUsd) = 0 \/ solPriceUpdatedAt = Null
  THEN [text |-> "unavailable", price |-> Null, at |-> Null]
  ELSE IF Val(solPriceUpdatedAt) = InvalidTime
  THEN [text |-> "RangeError", price |-> Null, at |-> Null]
  ELSE [text |-> "cached", price |-> solPriceUsd, at |-> solPriceUpdatedAt]

\* ----- the region summary auto-refresh (runRegionRefreshLoop) ----------------
\* Refresh cycles a specification lets start.
MaxRefreshCycles == 2

Regions == {"us", "eu"}

\* getGuildConfig: the refresh fields of a config created on first use.
NewRefreshConfig(gid) ==
  [guildId |-> gid, defaultRegion |-> "", refreshChannelId |-> "",
   lastRefreshMessageId |-> Null]

RefreshConfigs(cfgs, gid) ==
  IF \E i \in 1..Len(cfgs) : cfgs[i].guildId = gid THEN cfgs
  ELSE Append(cfgs, NewRefreshConfig(gid))

RefreshIdx(cfgs, gid) == CHOOSE i \in 1..Len(cfgs) : cfgs[i].guildId = gid

\* The four "continue" checks at the top of an iteration.
RefreshEligible(cfg) ==
  /\ cfg.refreshChannelId # ""
  /\ cfg.defaultRegion \in Regions
  /\ cfg.guildId \in reachable

\* The first guild at or after position from that passes the checks.
NextRefreshGuild(cfgs, from) ==
  LET ok == {i \in from..Len(cfgs) : RefreshEligible(cfgs[i])}
  IN IF ok = {} THEN Len(cfgs) + 1 ELSE SetMin(ok)

RefreshIdle ==
  [pc |-> "idle", g |-> 0, cycle |-> 0, posts |-> 0, failed |-> {}]

\* The for loop moves on from position from: it stops at the next await of an
\* eligible guild, or the function returns.
RefreshFrom(r, from) ==
  LET g == NextRefreshGuild(refreshConfigs, from)
  IN IF g > Len(refreshConfigs) THEN [r EXCEPT !.pc = "idle", !.g = 0]
     ELSE [r EXCEPT !.pc = "build", !.g = g]

\* A variant without the per-guild try/catch: the rejection leaves the loop.
AfterFailureAborting(r) == [r EXCEPT !.pc = "thrown", !.g = 0]

\* catch (err): the error is logged and the loop goes on with the next guild.
AfterFailure(r) == RefreshFrom(r, r.g + 1)

\* History: the failure of one await of guild r.g's iteration in this cycle.
Failed(r, how) ==
  [r EXCEPT !.failed = @ \cup {[guildId |-> refreshConfigs[r.g].guildId,
                                how |-> how]}]

\* setInterval(runRegionRefreshLoop, 60 * 1000); a cycle runs to its first await.
RefreshStart ==
  /\ rr.pc = "idle"
  /\ rr.cycle < MaxRefreshCycles
  /\ rr' = RefreshFrom([rr EXCEPT !.cycle = @ + 1, !.failed = {}], 1)
  /\ reply' = "none"
  /\ UNCHANGED <<pollVars, reachable, refreshConfigs, boardVars, priceVars, diskVars>>

\* (variant: the new summary is posted without looking at the stored
\* identifier of the previous one)
RefreshBuiltPostingAtOnce(o) ==
  /\ rr.pc = "build"
  /\ rr' = CASE o = "throw" -> AfterFailure(Failed(rr, "build"))
             [] o = "empty" -> RefreshFrom(rr, rr.g + 1)
             [] OTHER -> [rr EXCEPT !.pc = "send"]
  /\ reply' = "none"
  /\ UNCHANGED <<pollVars, reachable, refreshConfigs, boardVars, priceVars, diskVars>>

\* await buildRegionSummaryEmbeds settles.
RefreshBuilt(o) ==
  /\ rr.pc = "build"
  /\ rr' = CASE o = "throw" -> AfterFailure(Failed(rr, "build"))
             [] o = "empty" -> RefreshFrom(rr, rr.g + 1)
             [] OTHER ->
                  IF refreshConfigs[rr.g].lastRefreshMessageId # Null
                  THEN [rr EXCEPT !.pc = "fetchPrev"]
                  ELSE [rr EXCEPT !.pc = "send"]
  /\ reply' = "none"
  /\ UNCHANGED <<pollVars, reachable, refreshConfigs, boardVars, priceVars, diskVars>>

\* await channel.messages.fetch settles; a rejection is ignored.
RefreshPrevFetched(found) ==
  /\ rr.pc = "fetchPrev"
  /\ rr' = [rr EXCEPT !.pc = IF found THEN "delete" ELSE "send"]
  /\ reply' = "none"
  /\ UNCHANGED <<pollVars, reachable, refreshConfigs, boardVars, priceVars, diskVars>>

\* await prev.delete().catch(() => {}) settles, deleted or not.
RefreshDeleted(ok) ==
  /\ rr.pc = "delete"
  /\ rr' = [(IF ok THEN rr ELSE Failed(rr, "delete")) EXCEPT !.pc = "send"]
  /\ reply' = "none"
  /\ UNCHANGED <<pollVars, reachable, refreshConfigs, boardVars, priceVars, diskVars>>

\* await channel.send settles.
RefreshSent(ok) ==
  /\ rr.pc = "send"
  /\ IF ok
     THEN /\ refreshConfigs' = [refreshConfigs EXCEPT
                                  ![rr.g].lastRefreshMessageId = Some(rr.posts + 1)]
          /\ rr' = RefreshFrom([rr EXCEPT !.posts = @ + 1], rr.g + 1)
     ELSE /\ rr' = AfterFailure(Failed(rr, "send"))
          /\ UNCHANGED refreshConfigs
  /\ reply' = "none"
  /\ UNCHANGED <<pollVars, reachable, boardVars, priceVars, diskVars>>

\* ,config default-region <region>
ConfigRegion(gid, region) ==
  LET cfgs == RefreshConfigs(refreshConfigs, gid)
      i == RefreshIdx(cfgs, gid)
  IN /\ IF region \in Regions
        THEN /\ refreshConfigs' = [cfgs EXCEPT ![i].defaultRegion = region]
             /\ reply' = "Default region set"
        ELSE /\ refreshConfigs' = cfgs
             /\ reply' = "Invalid region"
     /\ UNCHANGED <<pollVars, reachable, rr, boardVars, priceVars, diskVars>>

\* ,config refresh channel <mention>
ConfigRefreshChannel(gid, valid) ==
  LET cfgs == RefreshConfigs(refreshConfigs, gid)
      i == RefreshIdx(cfgs, gid)
  IN /\ IF valid
        THEN /\ refreshConfigs' = [cfgs EXCEPT ![i].refreshChannelId = "chan"]
             /\ reply' = "Refresh channel set"
        ELSE /\ refreshConfigs' = [cfgs EXCEPT ![i].refreshChannelId = ""]
             /\ reply' = "Refresh channel cleared"
     /\ UNCHANGED <<pollVars, reachable, rr, boardVars, priceVars, diskVars>>

RegionInputs == Regions \cup {"asia"}

\* ----- the leaderboard view (buildLbEmbed) ----------------------------------
LB_PAGE_SIZE == 5

\* Snapshot players and requested page indexes (-MaxPage..MaxPage) drawn.
MaxPlayers == 12
MaxPage == 4

Max(a, b) == IF a >= b THEN a ELSE b
Min(a, b) == IF a <= b THEN a ELSE b

\* Math.ceil(n / d) for a length n and d > 0.
CeilDiv(n, d) == (n + d - 1) \div d

\* Array.prototype.slice(from, to).
Slice(s, from, to) ==
  LET rel(x) == IF x < 0 THEN Max(Len(s) + x, 0) ELSE Min(x, Len(s))
  IN SubSeq(s, rel(from) + 1, rel(to))

\* (b.size || 0) - (a.size || 0) compares these.
SizeOrZero(p) == IF p.size = Null THEN 0 ELSE Val(p.size)

\* Array.prototype.sort is stable: p goes behind the entries that are not smaller.
InsertBySize(sorted, p) ==
  LET k == Cardinality({i \in 1..Len(sorted) : SizeOrZero(sorted[i]) >= SizeOrZero(p)})
  IN SubSeq(sorted, 1, k) \o <<p>> \o SubSeq(sorted, k + 1, Len(sorted))

RECURSIVE SortBySizeDesc(_)
SortBySizeDesc(s) ==
  IF s = <<>> THEN <<>>
  ELSE InsertBySize(SortBySizeDesc(SubSeq(s, 1, Len(s) - 1)), s[Len(s)])

\* The players the handlers pass to buildLbEmbed.
LbPlayers(snapshot) == SortBySizeDesc(LbActivePlayers(snapshot))

\* A variant that only keeps the page from being negative.
ClampPageLowOnly(page, totalPages) == IF page < 0 THEN 0 ELSE page

ClampPage(page, totalPages) ==
  LET low == IF page < 0 THEN 0 ELSE page
  IN IF low > totalPages - 1 THEN totalPages - 1 ELSE low

\* A variant that numbers the entries inside their page; index is 0-based.
RankInPage(start, index) == index + 1

RankAt(start, index) == start + index + 1

\* A variant that converts at the rate stored when the page is rendered.
UsdDisplayAtRate(p) == UsdFromSol(p)

\* typeof p.usdFromSol === 'number' ? the amount : '(price unavailable)'
UsdDisplay(p) == p.usdFromSol

\* What the call leaves when solPriceStatusLine throws: nothing is rendered.
Thrown == [thrown |-> TRUE]

buildLbEmbed(players, page) ==
  LET totalPages == Max(1, CeilDiv(Len(players), LB_PAGE_SIZE))
      currentPage == ClampPage(page, totalPages)
      start == currentPage * LB_PAGE_SIZE
      pagePlayers == Slice(players, start, start + LB_PAGE_SIZE)
      status == solPriceStatusLine
  IN IF status.text = "RangeError" THEN Thrown
     ELSE [thrown |-> FALSE,
           totalPages |-> totalPages,
           currentPage |-> currentPage,
           status |-> status,
           empty |-> Len(pagePlayers) = 0,
           fields |-> [i \in 1..Len(pagePlayers) |->
                         [rank |-> RankAt(start, i - 1),
                          player |-> pagePlayers[i],
                          usd |-> UsdDisplay(pagePlayers[i])]],
           prev |-> totalPages > 1 /\ currentPage > 0,
           next |-> totalPages > 1 /\ currentPage < totalPages - 1]

\* The rendering made by ,lb and by a page button: filter, sort, build.
LbRender ==
  /\ lbIn # Null
  /\ lbOut' = Some(buildLbEmbed(LbPlayers(Val(lbIn).snapshot), Val(lbIn).page))
  /\ lbPrev' = lbOut
  /\ reply' = "none"
  /\ UNCHANGED <<pollVars, reachable, refreshVars, lbIn, priceVars, diskVars>>

\* Sizes of the i-th of n snapshot players, by shape of the list: growing,
\* shrinking, with equal sizes, and with players that are not shown.
SizeShapes == {"rising", "falling", "ties", "mixed"}

ShapedSize(shape, n, i) ==
  CASE shape = "rising" -> Some(ActiveSize + i)
    [] shape = "falling" -> Some(ActiveSize + n + 1 - i)
    [] shape = "ties" -> Some(ActiveSize + 1 + (i % 3))
    [] OTHER -> IF i % 4 = 0 THEN Null ELSE Some((i % 9) + 2)

ShapedPlayers(shape, n) ==
  [i \in 1..n |-> [privyId |-> "", id |-> ToString(i), name |-> "",
                    size |-> ShapedSize(shape, n, i),
                    monetaryValue |-> Some(1 + (i % 2)), usdFromSol |-> Null]]

LbInputs ==
  {[snapshot |-> [players |-> ShapedPlayers(shape, n)], page |-> p] :
     shape \in SizeShapes, n \in 0..MaxPlayers, p \in (-MaxPage)..MaxPage}

\* ----- the config file (loadGuildConfigsFromDisk, saveGuildConfigsToDisk) -----
\* Date.prototype.toISOString: the text carries seconds and milliseconds apart.
ToISOString(ms) == [sec |-> ms \div 1000, ms |-> ms % 1000]

\* A variant of the parse that drops the milliseconds.
ParseDateSeconds(iso) == iso.sec * 1000

\* getTime() of new Date(text) for a text toISOString wrote.
ParseDate(iso) == iso.sec * 1000 + iso.ms

RefreshConfigOf(cfgs, gid) ==
  LET all == RefreshConfigs(cfgs, gid) IN all[RefreshIdx(all, gid)]

\* The keys of the one Map the two sequences stand for, in insertion order.
TenantIds(cfgs, rcfgs) ==
  [i \in 1..Len(cfgs) |-> cfgs[i].guildId]
    \o SelectSeq([i \in 1..Len(rcfgs) |-> rcfgs[i].guildId],
                 LAMBDA gid : ~HasConfig(cfgs, gid))

SavedWatch(w) ==
  [id |-> w.id, lobbyKey |-> w.lobbyKey, threshold |-> w.threshold,
   intervalMinutes |-> w.intervalMinutes,
   lastAlertAt |-> IF w.lastAlertAt # Null THEN Some(ToISOString(Val(w.lastAlertAt)))
                   ELSE Null]

\* The object saveGuildConfigsToDisk writes for one guild.
SavedConfig(cfg, rcfg) ==
  [alertChannelId |-> cfg.alertChannelId,
   alertEnabled |-> cfg.alertEnabled,
   watches |-> [i \in 1..Len(cfg.watches) |-> SavedWatch(cfg.watches[i])],
   nextWatchId |-> IF cfg.nextWatchId = 0 THEN 1 ELSE cfg.nextWatchId,
   pingRoleId |-> cfg.pingRoleId,
   defaultRegion |-> rcfg.defaultRegion,
   refreshChannelId |-> rcfg.refreshChannelId]

\* The file's contents, one entry per guild.
SaveOf(cfgs, rcfgs) ==
  LET ids == TenantIds(cfgs, rcfgs)
  IN [i \in 1..Len(ids) |->
        [guildId |-> ids[i],
         stored |-> SavedConfig(ConfigOf(cfgs, ids[i]), RefreshConfigOf(rcfgs, ids[i]))]]

LoadedWatch(w) ==
  [id |-> w.id, lobbyKey |-> w.lobbyKey, threshold |-> w.threshold,
   intervalMinutes |-> w.intervalMinutes,
   lastAlertAt |-> IF w.lastAlertAt # Null THEN Some(ParseDate(Val(w.lastAlertAt)))
                   ELSE Null]

\* The config loadGuildConfigsFromDisk builds from a stored object.
LoadedConfig(gid, stored) ==
  [guildId |-> gid,
   alertChannelId |-> stored.alertChannelId,
   alertEnabled |-> stored.alertEnabled,
   lastSeenPlayers |-> [k \in Keys |-> {}],
   watches |-> [i \in 1..Len(stored.watches) |-> LoadedWatch(stored.watches[i])],
   nextWatchId |-> IF stored.nextWatchId = 0 THEN 1 ELSE stored.nextWatchId,
   pingRoleId |-> stored.pingRoleId]

LoadedRefreshConfig(gid, stored) ==
  [guildId |-> gid, defaultRegion |-> stored.defaultRegion,
   refreshChannelId |-> stored.refreshChannelId, lastRefreshMessageId |-> Null]

\* saveGuildConfigsToDisk, which the commands that change a config call.
Save ==
  /\ disk' = Some(SaveOf(guildConfigs, refreshConfigs))
  /\ savedFrom' = Some([cfgs |-> guildConfigs, rcfgs |-> refreshConfigs])
  /\ reply' = "none"
  /\ UNCHANGED <<pollVars, reachable, refreshVars, boardVars, priceVars>>

\* The process starts again with nothing in flight: loadGuildConfigsFromDisk
\* reads the file, the caches start empty.
Restart ==
  /\ disk # Null
  /\ requests = <<>> /\ ~priceReq /\ rr.pc = "idle"
  /\ \A c \in Cycles : cyc[c].pc = "idle"
  /\ guildConfigs' = [i \in 1..Len(Val(disk)) |->
                        LoadedConfig(Val(disk)[i].guildId, Val(disk)[i].stored)]
  /\ refreshConfigs' = [i \in 1..Len(Val(disk)) |->
                          LoadedRefreshConfig(Val(disk)[i].guildId, Val(disk)[i].stored)]
  /\ lobbyCache' = [k \in Keys |-> Null]
  /\ solPriceUsd' = Null /\ solPriceUpdatedAt' = Null
  /\ reply' = "none" /\ pair' = Null /\ returned' = <<>>
  /\ evals' = {} /\ joined' = {} /\ alerts' = {}
  /\ UNCHANGED <<clock, requests, cyc, requested, lastWrite, prevCall, watchHist,
                 joinHist, reachable, rr, boardVars, priceVars, diskVars>>

\* In-memory configs of one guild that earlier runs can have left.
SampleWatches ==
  {<<>>,
   <<NewWatch(1, LOBBIES[1], 1, 1)>>,
   <<[NewWatch(2, LOBBIES[1], 1, 2) EXCEPT !.lastAlertAt = Some(MsPerMinute + 7)]>>,
   <<NewWatch(1, LOBBIES[1], 1, 1),
     [NewWatch(2, LOBBIES[1], 1, 2) EXCEPT !.lastAlertAt = Some(MsPerMinute + 7)]>>}

\* Join alerts are on only with a channel set, and players are remembered
\* only for a lobby whose join alerts are on.
SampleConfigs(gid) ==
  {[NewConfig(gid) EXCEPT !.alertChannelId = x.ch,
                          !.alertEnabled[LOBBIES[1].key] = x.on,
                          !.lastSeenPlayers[LOBBIES[1].key] = x.seen,
                          !.watches = ws,
                          !.nextWatchId = IF ws = <<>> THEN 1 ELSE ws[Len(ws)].id + 1,
                          !.pingRoleId = role] :
     x \in {y \in [ch : {"", "chan"}, on : BOOLEAN, seen : {{}, {"pa"}}] :
              /\ y.on => y.ch # ""
              /\ y.seen # {} => y.on},
     ws \in SampleWatches, role \in {"", "role"}}

SampleRefreshConfigs(gid) ==
  {[guildId |-> gid, defaultRegion |-> "", refreshChannelId |-> "",
    lastRefreshMessageId |-> Null],
   [guildId |-> gid, defaultRegion |-> "eu", refreshChannelId |-> "chan",
    lastRefreshMessageId |-> Some(1)]}

\* What the run that wrote the file held: nothing, or configs of guilds.
SampleMemories ==
  {[cfgs |-> <<>>, rcfgs |-> <<>>]}
    \cup {[cfgs |-> <<c>>, rcfgs |-> <<r>>] :
            c \in SampleConfigs(1), r \in SampleRefreshConfigs(1)}
    \cup {[cfgs |-> <<c, NewConfig(1)>>, rcfgs |-> <<r>>] :
            c \in SampleConfigs(2), r \in SampleRefreshConfigs(1)}

\* ----- specifications -------------------------------------------------------
\* The state after construction, but for the arguments of a rendering and the
\* config file found.
Constructed ==
  /\ clock = 0
  /\ solPriceUsd = Null
  /\ solPriceUpdatedAt = Null
  /\ lobbyCache = [k \in Keys |-> Null]
  /\ requests = <<>>
  /\ guildConfigs = <<>>
  /\ reachable = Guilds
  /\ cyc = [c \in Cycles |-> Idle]
  /\ requested = [k \in Keys |-> FALSE]
  /\ lastWrite = [k \in Keys |-> "none"]
  /\ prevCall = [k \in Keys |-> Null]
  /\ watchHist = [gid \in Guilds |-> [id \in WatchIds |->
                    [prev |-> "none", sent |-> Null]]]
  /\ joinHist = [gid \in Guilds |-> [k \in Keys |-> NoDetection]]
  /\ pair = Null
  /\ returned = <<>>
  /\ reply = "none"
  /\ evals = {}
  /\ joined = {}
  /\ alerts = {}
  /\ refreshConfigs = <<>>
  /\ rr = RefreshIdle
  /\ lbOut = Null
  /\ lbPrev = Null
  /\ priceReq = FALSE
  /\ priceLast = Null

Init == Constructed /\ lbIn = Null /\ disk = Null /\ savedFrom = Null

\* A rendering of any of the inputs.
InitBoard == Constructed /\ lbIn \in {Some(x) : x \in LbInputs}
             /\ disk = Null /\ savedFrom = Null

NextCache ==
  \/ TickCache
  \/ \E c \in OneCycle : PollStart(c, OneEndpoint)
  \/ \E i \in 1..MaxInFlight, o \in CacheOutcomes : FetchSettle(i, o)
  \/ \E l \in LobbiesAt(OneEndpoint) : LbCommand(l)

SpecCache == Init /\ [][NextCache]_vars

NextWatch ==
  \/ TickWatch
  \/ \E c \in OneCycle : PollStart(c, OneEndpoint)
  \/ \E i \in 1..MaxInFlight, o \in Outcomes : FetchSettle(i, o)
  \/ \E c \in OneCycle, ok \in BOOLEAN : SendSettle(c, ok)
  \/ \E gid \in OneGuild, valid \in BOOLEAN : AlertChannel(gid, valid)
  \/ \E gid \in OneGuild, l \in LobbiesAt(OneEndpoint), t \in 0..MaxThreshold, m \in 0..MaxMinutes :
       WatchAdd(gid, l, t, m) /\ AtMostWatches(1)
  \/ \E gid \in OneGuild : ChannelFlip(gid)

SpecWatch == Init /\ [][NextWatch]_vars

\* The watch rules on the time scale of a request or a send.
NextLatency ==
  \/ TickCache
  \/ \E c \in OneCycle : PollStart(c, OneEndpoint)
  \/ \E i \in 1..MaxInFlight, o \in Outcomes : FetchSettle(i, o)
  \/ \E c \in OneCycle, ok \in BOOLEAN : SendSettle(c, ok)
  \/ \E gid \in OneGuild, valid \in BOOLEAN : AlertChannel(gid, valid)
  \/ \E gid \in OneGuild, l \in LobbiesAt(OneEndpoint), t \in 0..MaxThreshold, m \in 0..MaxMinutes :
       WatchAdd(gid, l, t, m) /\ AtMostWatches(1)
  \/ \E gid \in OneGuild : ChannelFlip(gid)

SpecLatency == Init /\ [][NextLatency]_vars

\* The poll cycle over every lobby of the model, as time passes.
NextFresh ==
  \/ TickCache
  \/ \E c \in OneCycle : PollStart(c, LobbyIdx)
  \/ \E i \in 1..MaxInFlight, o \in CacheOutcomes : FetchSettle(i, o)

SpecFresh == Init /\ [][NextFresh]_vars

\* One poll cycle at a time over every lobby of the model, for a guild with
\* join alerts and a watch.
NextPoll ==
  \/ \E c \in OneCycle : PollStart(c, LobbyIdx)
  \/ \E i \in 1..MaxInFlight, o \in PollOutcomes : FetchSettle(i, o)
  \/ \E c \in OneCycle, ok \in BOOLEAN : SendSettle(c, ok)
  \/ \E gid \in OneGuild, valid \in BOOLEAN : AlertChannel(gid, valid)
  \/ \E gid \in OneGuild, l \in Lobbies : AlertOn(gid, l)
  \/ \E gid \in OneGuild, l \in Lobbies : WatchAdd(gid, l, 1, 1) /\ AtMostWatches(1)

SpecPoll == Init /\ [][NextPoll]_vars

\* Join alerts of one guild, with poll cycles that overlap.
NextJoin ==
  \/ \E c \in Cycles : PollStart(c, OneEndpoint)
  \/ \E i \in 1..MaxInFlight, o \in JoinOutcomes : FetchSettle(i, o)
  \/ \E c \in Cycles, ok \in BOOLEAN : SendSettle(c, ok)
  \/ \E gid \in OneGuild, valid \in BOOLEAN : AlertChannel(gid, valid)
  \/ \E gid \in OneGuild, l \in LobbiesAt(OneEndpoint) : AlertOn(gid, l)
  \/ \E gid \in OneGuild, l \in LobbiesAt(OneEndpoint) : AlertOff(gid, l)

SpecJoin == Init /\ [][NextJoin]_vars

\* Join alerts of one guild whose notifications all fail to be sent.
NextLost ==
  \/ \E c \in OneCycle : PollStart(c, OneEndpoint)
  \/ \E i \in 1..MaxInFlight, o \in JoinOutcomes : FetchSettle(i, o)
  \/ \E c \in OneCycle : SendSettle(c, FALSE)
  \/ \E gid \in OneGuild : AlertChannel(gid, TRUE)
  \/ \E gid \in OneGuild, l \in LobbiesAt(OneEndpoint) : AlertOn(gid, l)

SpecLost == Init /\ [][NextLost]_vars

\* One watch of one guild, with alerts that are sent or fail, as minutes pass.
NextUnsent ==
  \/ TickWatch
  \/ \E c \in OneCycle : PollStart(c, OneEndpoint)
  \/ \E i \in 1..MaxInFlight, o \in PollOutcomes : FetchSettle(i, o)
  \/ \E c \in OneCycle, ok \in BOOLEAN : SendSettle(c, ok)
  \/ \E gid \in OneGuild : AlertChannel(gid, TRUE)
  \/ \E gid \in OneGuild : WatchAdd(gid, LOBBIES[1], 1, 1) /\ AtMostWatches(1)

SpecUnsent == Init /\ [][NextUnsent]_vars

\* Join alerts and one watch of one guild on the lobby with an endpoint, with
\* fetches that fail and alerts that are switched off and on between cycles.
NextRetained ==
  \/ \E c \in OneCycle : PollStart(c, OneEndpoint)
  \/ \E i \in 1..MaxInFlight, o \in PollOutcomes : FetchSettle(i, o)
  \/ \E c \in OneCycle, ok \in BOOLEAN : SendSettle(c, ok)
  \/ \E gid \in OneGuild : AlertChannel(gid, TRUE)
  \/ \E gid \in OneGuild : AlertOn(gid, LOBBIES[1])
  \/ \E gid \in OneGuild : AlertOff(gid, LOBBIES[1])
  \/ \E gid \in OneGuild : WatchAdd(gid, LOBBIES[1], 1, 1) /\ AtMostWatches(1)

SpecRetained == Init /\ [][NextRetained]_vars

\* Join alerts and one watch in each of two guilds whose alert channels are
\* set by command and stop and start being resolvable while cycles run.
NextTenant ==
  \/ \E c \in OneCycle : PollStart(c, OneEndpoint)
  \/ \E i \in 1..MaxInFlight, o \in PollOutcomes : FetchSettle(i, o)
  \/ \E c \in OneCycle, ok \in BOOLEAN : SendSettle(c, ok)
  \/ \E gid \in Guilds : AlertChannel(gid, TRUE)
  \/ \E gid \in Guilds : AlertOn(gid, LOBBIES[1])
  \/ \E gid \in Guilds : WatchAdd(gid, LOBBIES[1], 1, 1) /\ AtMostWatches(1)
  \/ \E gid \in Guilds : ChannelFlip(gid)

SpecTenant == Init /\ [][NextTenant]_vars

\* The auto-refresh loop over two guilds whose refresh settings, region and
\* reachability change while cycles run.
NextRefresh ==
  \/ RefreshStart
  \/ \E o \in {"embeds", "empty", "throw"} : RefreshBuilt(o)
  \/ \E found \in BOOLEAN : RefreshPrevFetched(found)
  \/ \E ok \in BOOLEAN : RefreshDeleted(ok)
  \/ \E ok \in BOOLEAN : RefreshSent(ok)
  \/ \E gid \in Guilds, region \in RegionInputs : ConfigRegion(gid, region)
  \/ \E gid \in Guilds, valid \in BOOLEAN : ConfigRefreshChannel(gid, valid)
  \/ \E gid \in Guilds : ChannelFlip(gid)

SpecRefresh == Init /\ [][NextRefresh]_vars

\* buildLbEmbed applied to the snapshot and page drawn at the start.
NextBoard == LbRender

SpecBoard == InitBoard /\ [][NextBoard]_vars

\* ---- The page buttons of a leaderboard message ----

\* lb_prev and lb_next: direction = action === 'lb_prev' ? -1 : 1
ButtonDirs == {0 - 1, 1}

\* The lobby whose leaderboard message is on display.
ButtonLobby == LOBBIES[1]

\* The requests issued by getLobbySnapshot for a button press.
ButtonCalls == {i \in 1..Len(requests) : requests[i].by = "button"}

\* (variant: the press turns the page of the snapshot that is on display)
ButtonViewOfDisplayed(snapshot, page, dir) ==
  buildLbEmbed(LbPlayers(Val(lbIn).snapshot), page + dir)

\* The message a press builds from the snapshot getLobbySnapshot returned:
\* filter, sort, newPage = page + direction, buildLbEmbed.
ButtonView(snapshot, page, dir) ==
  buildLbEmbed(LbPlayers(snapshot), page + dir)

\* interaction.update with the message built from snapshot.
ButtonUpdate(snapshot, page, dir) ==
  /\ lbIn' = Some([snapshot |-> snapshot, page |-> page + dir])
  /\ lbOut' = Some(ButtonView(snapshot, page, dir))
  /\ lbPrev' = lbOut
  /\ reply' = "page"

\* The interactionCreate handler for a press of the lb_prev or lb_next button
\* of the displayed message of lobby l, up to the await of getLobbySnapshot:
\* the page in the button's customId is the page on display.  One press is
\* handled at a time.
LbButton(l, dir) ==
  /\ lbOut # Null
  /\ ~Val(lbOut).thrown
  /\ IF dir = 1 THEN Val(lbOut).next ELSE Val(lbOut).prev
  /\ ButtonCalls = {}
  /\ IF ~HasUrl(l)
     THEN /\ reply' = "noapi"
          /\ returned' = <<>>
          /\ pair' = Null
          /\ UNCHANGED <<requests, requested, prevCall, boardVars>>
     ELSE
       LET now == SnapshotNow(l)
           page == Val(lbOut).currentPage
           this == [at |-> clock, doneAt |-> clock, issued |-> now = Null, ok |-> TRUE]
       IN
       /\ pair' = IF prevCall[l.key] = Null THEN Null
                  ELSE Some([first |-> Val(prevCall[l.key]), at |-> clock,
                             issued |-> now = Null])
       /\ IF now # Null
          THEN /\ prevCall' = [prevCall EXCEPT ![l.key] = Some(this)]
               /\ returned' = <<[fn |-> "getLobbySnapshot", key |-> l.key,
                                 path |-> "hit", val |-> now]>>
               /\ IF Val(now).noApi
                  THEN reply' = "error" /\ UNCHANGED boardVars
                  ELSE ButtonUpdate(Val(now), page, dir)
               /\ UNCHANGED <<requests, requested>>
          ELSE /\ requests' = Append(requests, [key |-> l.key, by |-> "button", who |-> 0,
                                                at |-> clock, stale |-> FALSE,
                                                page |-> page, dir |-> dir])
               /\ requested' = [requested EXCEPT ![l.key] = TRUE]
               /\ returned' = <<>>
               /\ reply' = "none"
               /\ UNCHANGED <<prevCall, boardVars>>
  /\ evals' = {} /\ joined' = {} /\ alerts' = {}
  /\ UNCHANGED <<refreshVars, priceVars, diskVars>>
  /\ UNCHANGED <<clock, solPriceUsd, solPriceUpdatedAt, lobbyCache, guildConfigs,
                 reachable, cyc, lastWrite, watchHist, joinHist>>

\* The request of a press settles with outcome o: fetchLobbyPlayers stores
\* and returns the snapshot, and the handler goes on from its await.
ButtonSettle(i, o) ==
  /\ i \in ButtonCalls
  /\ LET r == requests[i]
         l == LobbyOf(r.key)
         ret == [fn |-> "fetchLobbyPlayers", key |-> r.key,
                 path |-> IF FetchOk(o) THEN "ok" ELSE "fail",
                 val |-> FetchResult(l, o)]
     IN
     /\ lobbyCache' = CacheAfterFetch(lobbyCache, l, o)
     /\ requests' = RequestsAfter(i, FetchOk(o))
     /\ lastWrite' = IF ~FetchOk(o) THEN lastWrite
                     ELSE [lastWrite EXCEPT ![r.key] =
                             IF lobbyCache[r.key] = Null THEN "first"
                             ELSE IF r.stale THEN "older" ELSE "newer"]
     /\ returned' = <<ret, [ret EXCEPT !.fn = "getLobbySnapshot"]>>
     /\ prevCall' = [prevCall EXCEPT ![r.key] =
                       Some([at |-> r.at, doneAt |-> clock, issued |-> TRUE,
                             ok |-> FetchOk(o)])]
     /\ IF FetchOk(o)
        THEN ButtonUpdate(Val(FetchResult(l, o)), r.page, r.dir)
        ELSE reply' = "error" /\ UNCHANGED boardVars
  /\ evals' = {} /\ joined' = {} /\ pair' = Null /\ alerts' = {}
  /\ UNCHANGED <<refreshVars, priceVars, diskVars>>
  /\ UNCHANGED <<clock, solPriceUsd, solPriceUpdatedAt, reachable, requested,
                 guildConfigs, cyc, watchHist, joinHist>>

\* Bodies of a lobby with few, some and many players, all of them shown.
ButtonCrowds == {1, MaxPlayers \div 2, MaxPlayers - 1}

CrowdBody(shape, n) ==
  [success |-> TRUE, serverId |-> "srv", playerCount |-> Null,
   hasPlayers |-> TRUE, players |-> ShapedPlayers(shape, n), timestamp |-> Null]

ButtonOutcomes ==
  [kind : {"body"}, body : {CrowdBody("falling", n) : n \in ButtonCrowds}]
  \cup [kind : {"timeout"}, body : {BodyRefused}]

\* What the poll cycle's fetch brings: a lobby where some are not shown.
CrowdPollOutcomes ==
  [kind : {"body"}, body : {CrowdBody("mixed", MaxPlayers - 1)}]

\* The message on display at the start: a page of a crowded lobby.
ButtonInputs ==
  {x \in LbInputs : /\ x.snapshot.players = ShapedPlayers("falling", MaxPlayers - 1)
                    /\ x.page \in 0..2}

InitButton == Constructed /\ lbIn \in {Some(x) : x \in ButtonInputs}
              /\ disk = Null /\ savedFrom = Null

\* A displayed leaderboard whose buttons are pressed while the lobby's
\* players come and go and the poll cycle refreshes the cache.
NextButton ==
  \/ LbRender
  \/ TickCache
  \/ \E dir \in ButtonDirs : LbButton(ButtonLobby, dir)
  \/ \E i \in 1..Len(requests), o \in ButtonOutcomes : ButtonSettle(i, o)
  \/ \E c \in OneCycle : PollStart(c, {1})
  \/ \E i \in 1..Len(requests), o \in CrowdPollOutcomes : FetchSettle(i, o)

SpecButton == InitButton /\ [][NextButton]_vars

\* Renderings of a full lobby's first pages.
ViewInputs ==
  {x \in LbInputs : Len(x.snapshot.players) = MaxPlayers /\ x.page \in {0, 1}}

InitView == Constructed /\ lbIn \in {Some(x) : x \in ViewInputs}
            /\ disk = Null /\ savedFrom = Null

\* The same snapshot and page rendered again and again while the price
\* refreshes.
NextView ==
  \/ LbRender
  \/ PriceStart
  \/ \E o \in PriceOutcomes : PriceSettle(o)

SpecView == InitView /\ [][NextView]_vars

\* Lobby fetches while the price refreshes, fails to, or has not yet.
NextPrice ==
  \/ PriceStart
  \/ \E o \in PriceOutcomes : PriceSettle(o)
  \/ TickCache
  \/ \E c \in OneCycle : PollStart(c, OneEndpoint)
  \/ \E i \in 1..MaxInFlight, o \in CacheOutcomes : FetchSettle(i, o)

SpecPrice == Init /\ [][NextPrice]_vars

\* The watch commands of two guilds.
NextIds ==
  \/ \E gid \in Guilds, l \in LobbiesAt(OneEndpoint), threshold \in 0..MaxThreshold :
       WatchAdd(gid, l, threshold, 1)
  \/ \E gid \in Guilds, id \in RemoveIds : WatchRemove(gid, id)
  \/ \E gid \in Guilds : WatchClear(gid)

SpecIds == Init /\ [][NextIds]_vars

\* What parseInt leaves of a threshold or minutes argument: NaN, a number
\* below one, a number from one up.
ParsedCounts(max) == {Null, Some(0 - 1), Some(0)} \cup {Some(n) : n \in 1..max}

\* What parseInt leaves of a lobby argument: NaN, a lobby, no lobby.
ParsedLobbies == {Null, Some(1), Some(5), Some(7)}

\* Watch commands of one guild with every kind of argument.
NextArgs ==
  \/ \E gid \in OneGuild, lobbyNum \in ParsedLobbies, region \in {"us", "eu", "asia"},
        threshold \in ParsedCounts(MaxThreshold), minutes \in ParsedCounts(MaxMinutes) :
       WatchAddArgs(gid, lobbyNum, region, threshold, minutes)
  \/ \E gid \in OneGuild, id \in RemoveIds : WatchRemove(gid, id)
  \/ \E gid \in OneGuild : WatchClear(gid)

SpecArgs == Init /\ [][NextArgs]_vars

\* The process starts with a config file an earlier run wrote.
InitDisk ==
  /\ Constructed
  /\ lbIn = Null
  /\ \E m \in SampleMemories :
       /\ disk = Some(SaveOf(m.cfgs, m.rcfgs))
       /\ savedFrom = Some(m)

\* Restarts, saves and the commands of one guild in between.
NextDisk ==
  \/ Restart
  \/ Save
  \/ \E gid \in OneGuild : WatchAdd(gid, LOBBIES[1], 1, 1)
  \/ \E gid \in OneGuild : AlertOn(gid, LOBBIES[1])
  \/ \E gid \in OneGuild : ConfigRefreshChannel(gid, FALSE)

SpecDisk == InitDisk /\ [][NextDisk]_vars

\* One watch of one guild, with poll cycles that overlap.
NextOverlap ==
  \/ TickWatch
  \/ \E c \in Cycles : PollStart(c, OneEndpoint)
  \/ \E i \in 1..MaxInFlight, o \in PollOutcomes : FetchSettle(i, o)
  \/ \E c \in Cycles, ok \in BOOLEAN : SendSettle(c, ok)
  \/ \E gid \in OneGuild, valid \in BOOLEAN : AlertChannel(gid, valid)
  \/ \E gid \in OneGuild, l \in LobbiesAt(OneEndpoint) :
       WatchAdd(gid, l, 1, 1) /\ AtMostWatches(1)

SpecOverlap == Init /\ [][NextOverlap]_vars

\* ----- properties of the cache and the fetcher -----------------------------
IsPlaceholder(v) ==
  /\ v # Null
  /\ Val(v).playerCount = 0
  /\ Val(v).players = <<>>
  /\ Val(v).noApi

\* C1: for a lobby without fetch endpoint, every value fetchLobbyPlayers
\* returns and the value getLobbySnapshot returns in any reachable state is a
\* snapshot with playerCount 0, no players and noApi set, and no network
\* request is ever issued or in flight for that lobby.
NoApiLobbyIsPlaceholder ==
  \A l \in Lobbies : ~HasUrl(l) =>
    /\ ~requested[l.key]
    /\ \A i \in 1..Len(requests) : requests[i].key # l.key
    /\ \A i \in 1..Len(returned) :
         returned[i].key = l.key => IsPlaceholder(returned[i].val)
    /\ IsPlaceholder(SnapshotNow(l))

\* A poll cycle has just got the placeholder back from fetchLobbyPlayers while
\* another lobby has been requested over the network and time has passed.
NoApiLobbyFetched ==
  /\ clock > 0
  /\ \E i \in 1..Len(returned) :
       /\ ~HasUrl(LobbyOf(returned[i].key))
       /\ returned[i].fn = "fetchLobbyPlayers"
  /\ \E k \in Keys : requested[k]

\* C2 as stated: two successive getLobbySnapshot calls for a supported lobby
\* that start less than 5000 ms apart issue exactly one request in total.
TwoCallsOneRequest ==
  (pair # Null /\ Val(pair).at - Val(pair).first.at < FreshMs)
    => (Val(pair).first.issued # Val(pair).issued)

\* C2 amended: when a getLobbySnapshot call for a supported lobby issued a
\* request that succeeded, a call that starts less than 5000 ms after that
\* completion issues none, so the two calls issue exactly one request.
SecondCallWithinWindowHitsCache ==
  (/\ pair # Null
   /\ Val(pair).first.issued
   /\ Val(pair).first.ok
   /\ Val(pair).at - Val(pair).first.doneAt < FreshMs)
    => ~Val(pair).issued

\* A call that starts later than, but within the window of, a call whose
\* request succeeded.
SecondCallWithinWindow ==
  /\ pair # Null
  /\ Val(pair).first.issued
  /\ Val(pair).first.ok
  /\ Val(pair).at > Val(pair).first.doneAt
  /\ Val(pair).at - Val(pair).first.doneAt < FreshMs

\* C3: at no time are two on-demand fetches for the same lobby in flight.
NoTwoOnDemandFetchesInFlight ==
  \A i, j \in PendingCalls : requests[i].key = requests[j].key => i = j

\* C4: the turn in which a fetch for a supported lobby fails leaves the cache
\* entry of that lobby as it was, and fetchLobbyPlayers and getLobbySnapshot
\* return null.
FailedFetchKeepsCache ==
  [][\A i \in 1..Len(returned') :
       returned'[i].path = "fail" =>
         /\ lobbyCache'[returned'[i].key] = lobbyCache[returned'[i].key]
         /\ returned'[i].val = Null]_vars

\* A getLobbySnapshot call has just returned null from a failed fetch while a
\* stale snapshot of the lobby is cached.
FailedFetchWithStaleCache ==
  \E i \in 1..Len(returned) :
    /\ returned[i].fn = "getLobbySnapshot"
    /\ returned[i].path = "fail"
    /\ lobbyCache[returned[i].key] # Null
    /\ clock - Val(lobbyCache[returned[i].key]).lastFetched >= FreshMs

\* C5: a cached snapshot is only ever replaced by the result of a fetch
\* attempt that started later than the attempt that produced it.
NoOverwriteByOlderFetch == \A k \in Keys : lastWrite[k] # "older"


\* ----- properties of the watch evaluation ------------------------------------
\* The cooldown condition in the words of the claims.
Elapsed(e, since) ==
  since = Null \/ e.now - Val(since) >= e.intervalMinutes * MsPerMinute

\* The cycle that made evaluation e is awaiting the send of e's alert.
Sending(e) ==
  /\ cyc[e.cycle].pc = "watchSend"
  /\ cyc[e.cycle].w = e.id
  /\ guildConfigs[cyc[e.cycle].g].guildId = e.guildId
  /\ cyc[e.cycle].now = e.now

\* C6: an evaluation at time now of a watch whose snapshot is present and
\* supported, in a guild whose alert channel resolves, sends an alert if and
\* only if activeCount >= threshold and lastAlertAt is null or at least
\* intervalMinutes * 60000 ms before now.
FiresIffThresholdAndCooldown ==
  \A e \in evals : e.usable =>
    (Sending(e) <=> (e.count >= e.threshold /\ Elapsed(e, e.last)))

\* An evaluation fires a watch that had fired before.
WatchFiredAgain ==
  \E e \in evals : e.usable /\ Sending(e) /\ e.last # Null

AlertStampIsEvaluationNow == \A a \in alerts : a.at = a.now

RecrossFiresImmediately ==
  \A e \in evals :
    (e.prev = "below" /\ e.usable /\ e.count >= e.threshold) => Sending(e)

\* The watch of evaluation e, if it is still stored.
StoredWatch(e) ==
  UNION {{guildConfigs[g].watches[i] :
            i \in {j \in 1..Len(guildConfigs[g].watches) :
                     guildConfigs[g].watches[j].id = e.id}} :
         g \in {h \in 1..Len(guildConfigs) : guildConfigs[h].guildId = e.guildId}}

\* C10 amended: a watch whose count dropped below the threshold fires at the
\* first evaluation at which the threshold is met again and lastAlertAt is
\* null or at least intervalMinutes old; an evaluation below the threshold
\* leaves lastAlertAt as it was.
RecrossFiresWhenCooldownAllows ==
  \A e \in evals :
    /\ (e.prev = "below" /\ e.usable /\ e.count >= e.threshold /\ Elapsed(e, e.last))
         => Sending(e)
    /\ e.out = "below" => \A w \in StoredWatch(e) : w.lastAlertAt = e.last

\* A watch that fired, dropped below the threshold and met it again fires.
RecrossFired ==
  \E e \in evals : e.prev = "below" /\ e.last # Null /\ Sending(e)

\* The watch that evaluation e looked at, as cfgs stores it.
WatchIn(cfgs, e) ==
  UNION {{cfgs[g].watches[i] :
            i \in {j \in 1..Len(cfgs[g].watches) : cfgs[g].watches[j].id = e.id}} :
         g \in {h \in 1..Len(cfgs) : cfgs[h].guildId = e.guildId}}

\* C11: the turn in which an evaluation does not fire (snapshot absent or
\* unsupported, count below the threshold, or cooldown not elapsed) leaves
\* the evaluated watch as it was, its lastAlertAt included.
NonFiringLeavesWatch ==
  [][\A e \in evals' :
       e.out # "fire" => WatchIn(guildConfigs', e) = WatchIn(guildConfigs, e)]_vars

\* A watch that fired before has just been held back by the cooldown and
\* still carries the lastAlertAt it was evaluated with.
HeldBackWatchKept ==
  \E e \in evals :
    /\ e.out = "cooldown" /\ e.last # Null
    /\ \E w \in WatchIn(guildConfigs, e) : w.lastAlertAt = e.last

\* ----- properties of join detection -----------------------------------------
\* The identifiers of the players a detection reports.
JoinKeys(d) == {PlayerKey(d.joins[i]) : i \in 1..Len(d.joins)}

\* The cycle that made detection d is awaiting the send of d's report.
JoinSending(d) ==
  /\ cyc[d.cycle].pc = "joinSend"
  /\ LOBBIES[cyc[d.cycle].l].key = d.key
  /\ guildConfigs[cyc[d.cycle].g].guildId = d.guildId

\* The last-seen set the guild of detection d stores for d's lobby.
LastSeenOf(d) ==
  guildConfigs[ConfigIdx(guildConfigs, d.guildId)].lastSeenPlayers[d.key]

\* C12: a join detection for an enabled (guild, lobby) whose snapshot has
\* active players reports exactly the players whose identifier is in the
\* current active identifier set and not in the stored last-seen set, each
\* once, and sends a report exactly when there is one.
JoinsAreCurrentMinusLastSeen ==
  \A d \in joined : Len(d.active) > 0 =>
    /\ d.current = {PlayerKey(d.active[i]) : i \in 1..Len(d.active)} \ {""}
    /\ JoinKeys(d) = d.current \ d.last
    /\ \A i, j \in 1..Len(d.joins) :
         PlayerKey(d.joins[i]) = PlayerKey(d.joins[j]) => i = j
    /\ \A i \in 1..Len(d.joins) : \E j \in 1..Len(d.active) : d.active[j] = d.joins[i]
    /\ (d.joins # <<>>) <=> JoinSending(d)

\* Last-seen {A, B}, current {B, C}: exactly C is reported.
OneOfTwoIsNew ==
  \E d \in joined :
    /\ Cardinality(d.last) = 2 /\ Cardinality(d.current) = 2
    /\ d.last \cap d.current # {}
    /\ Cardinality(JoinKeys(d)) = 1
    /\ JoinSending(d)

\* C13: a join detection for an enabled (guild, lobby) whose snapshot has no
\* active player reports nothing and leaves the stored last-seen set empty,
\* and the detection that follows one that found the lobby empty reports
\* every active identifier, those seen before the lobby emptied included.
EmptyLobbyForgets ==
  \A d \in joined :
    /\ Len(d.active) = 0 =>
         d.joins = <<>> /\ ~JoinSending(d) /\ LastSeenOf(d) = {}
    /\ d.before.prev = "empty" => JoinKeys(d) = d.current

\* A player seen before the lobby emptied is reported again.
ForgottenPlayerRejoins ==
  \E d \in joined :
    /\ d.before.prev = "empty"
    /\ JoinKeys(d) \cap d.before.wiped # {}
    /\ JoinSending(d)

\* C14 as stated: after a detection with active players the stored last-seen
\* set is the current identifier set, and no player active at two
\* consecutive detections of a (guild, lobby) is reported at the second.
StayingPlayerNotReportedAgain ==
  \A d \in joined :
    /\ Len(d.active) > 0 => LastSeenOf(d) = d.current
    /\ d.before.prev = "some" => JoinKeys(d) \cap d.before.cur = {}

\* C14 amended: the same, for consecutive detections between which the
\* alerts of the lobby were not switched off.
StayingPlayerNotReportedAgainWhileOn ==
  \A d \in joined :
    /\ Len(d.active) > 0 => LastSeenOf(d) = d.current
    /\ (d.before.prev = "some" /\ ~d.before.off) =>
         JoinKeys(d) \cap d.before.cur = {}

\* A player stays active while another joins: only the other is reported,
\* and a detection that finds no join has stored the current set.
StayingPlayerSkipped ==
  \E d \in joined :
    /\ d.before.prev = "some" /\ ~d.before.off
    /\ d.before.cur \cap d.current # {}
    /\ JoinKeys(d) # {}
    /\ LastSeenOf(d) = d.current

\* ----- properties of the poll cycle -------------------------------------------
\* The requests the step appended for lobby l on behalf of cycle c.
NewPollRequests(c, l) ==
  {i \in (Len(requests) + 1)..Len(requests') :
     requests'[i].key = l.key /\ requests'[i].by = "poll" /\ requests'[i].who = c}

\* The step ran the fetch pass of a poll cycle.
FetchPassRan == \E i \in 1..Len(returned') : returned'[i].path = "synth"

\* C15: the step that starts a poll cycle issues exactly one request for
\* every lobby with an endpoint and none for a lobby without, whatever the
\* age of the cached snapshots.
PollIssuesOnePerEndpoint ==
  [][/\ FetchPassRan => \E c \in Cycles : cyc[c].pc = "idle" /\ cyc'[c].pc = "fetching"
     /\ \A c \in Cycles :
          (cyc[c].pc = "idle" /\ cyc'[c].pc = "fetching") =>
            /\ SubSeq(requests', 1, Len(requests)) = requests
            /\ \A l \in Lobbies :
                 Cardinality(NewPollRequests(c, l)) = IF HasUrl(l) THEN 1 ELSE 0
            /\ Len(requests') = Len(requests)
                                 + Cardinality({l \in Lobbies : HasUrl(l)})]_vars

\* A poll cycle has just issued its requests although every lobby with an
\* endpoint has a snapshot fetched less than 5000 ms ago.
PolledWhileFresh ==
  /\ \E i \in 1..Len(returned) : returned[i].path = "synth"
  /\ clock > 0
  /\ \A l \in Lobbies : HasUrl(l) =>
       /\ IsFresh(lobbyCache, l.key)
       /\ Val(lobbyCache[l.key]).lastFetched > 0
       /\ \E i \in 1..Len(requests) : requests[i].key = l.key /\ requests[i].by = "poll"

\* A fetch that cycle c issued is in flight.
FetchInFlight(c) ==
  \E i \in 1..Len(requests) : requests[i].by = "poll" /\ requests[i].who = c

\* Cycle c is processing: it made a detection or an evaluation in this turn
\* or awaits a send.
Processing(c) ==
  \/ cyc[c].pc \in {"joinSend", "watchSend"}
  \/ \E d \in joined : d.cycle = c
  \/ \E e \in evals : e.cycle = c

LobbyIndex(k) == CHOOSE i \in LobbyIdx : LOBBIES[i].key = k

\* A snapshot the loops of processJoinAlerts and processWatches work on.
Usable(snap) == snap # Null /\ ~Val(snap).noApi

\* Cycle c stopped at a send before it reached lobby li of guild index g in
\* processJoinAlerts.
JoinSendBefore(c, g, li) ==
  /\ cyc[c].pc = "joinSend"
  /\ cyc[c].g < g \/ (cyc[c].g = g /\ cyc[c].l < li)

\* Cycle c stopped at a send before it reached watch id of guild index g in
\* processWatches.
WatchSendBefore(c, g, id) ==
  \/ cyc[c].pc = "joinSend"
  \/ /\ cyc[c].pc = "watchSend"
     /\ cyc[c].g < g \/ (cyc[c].g = g /\ cyc[c].w < id)

\* Every enabled lobby with a usable snapshot of every guild whose channel
\* resolves has its join detection made, up to the send the cycle stopped at.
JoinsProcessed(c) ==
  \A g \in 1..Len(guildConfigs) : TenantOk(guildConfigs[g]) =>
    \A l \in Lobbies :
      (guildConfigs[g].alertEnabled[l.key] /\ Usable(lobbyCache[l.key])) =>
        \/ \E d \in joined : /\ d.cycle = c /\ d.key = l.key
                              /\ d.guildId = guildConfigs[g].guildId
        \/ JoinSendBefore(c, g, LobbyIndex(l.key))

\* Every watch of every guild whose channel resolves, from watch from of
\* guild index g0 on, is evaluated, up to the send the cycle stopped at.
WatchesProcessed(c, g0, from) ==
  \A g \in g0..Len(guildConfigs) : TenantOk(guildConfigs[g]) =>
    \A i \in 1..Len(guildConfigs[g].watches) :
      LET id == guildConfigs[g].watches[i].id IN
      (g > g0 \/ id >= from) =>
        \/ \E e \in evals : /\ e.cycle = c /\ e.id = id
                             /\ e.guildId = guildConfigs[g].guildId
        \/ WatchSendBefore(c, g, id)

\* C16: a cycle makes no join detection and no watch evaluation while one of
\* its fetches is in flight, and the turn in which its last fetch settles,
\* with success or failure, runs the detection of every enabled lobby that
\* has a snapshot and the evaluation of every watch.
ProcessingAfterAllFetchesSettle ==
  [][\A c \in Cycles :
       /\ Processing(c)' => ~FetchInFlight(c)'
       /\ (FetchInFlight(c) /\ ~FetchInFlight(c)') =>
            JoinsProcessed(c)' /\ WatchesProcessed(c, 1, 1)']_vars

\* The last fetch of a cycle has just failed, and the only enabled lobby,
\* another one, whose snapshot changed in this cycle, has its joins reported.
ProcessedDespiteFailure ==
  \E i \in 1..Len(returned), d \in joined :
    /\ returned[i].path = "fail"
    /\ d.key # returned[i].key
    /\ d.before.prev = "some"
    /\ d.joins # <<>> /\ JoinSending(d)
    /\ \A k \in Keys \ {d.key} :
         ~guildConfigs[ConfigIdx(guildConfigs, d.guildId)].alertEnabled[k]

\* C17: a send that fails does not end the cycle: the turn in which a send
\* of cycle c settles and the cycle ends has evaluated every watch that
\* was still to come.
FailedSendDoesNotAbort ==
  [][\A c \in Cycles :
       (cyc[c].pc \in {"joinSend", "watchSend"} /\ cyc'[c].pc = "idle") =>
         IF cyc[c].pc = "joinSend"
         THEN WatchesProcessed(c, 1, 1)'
         ELSE \A g \in 1..Len(guildConfigs), w \in WatchIds :
                (g = cyc[c].g /\ w = cyc[c].w) => WatchesProcessed(c, g, w + 1)']_vars

\* C18: in one auto-refresh cycle, a failure while building, deleting or posting
\* the summary of one guild does not keep the later guilds from being processed:
\* after a failed build or post the loop stands at the first later guild that
\* passes the checks (or the cycle ends, when there is none), after a failed
\* delete it goes on to post for the same guild, and the function never throws.
RefreshFailureDoesNotStopCycle ==
  [][/\ rr'.pc # "thrown"
     /\ \A f \in rr'.failed \ rr.failed :
          LET j == NextRefreshGuild(refreshConfigs, rr.g + 1)
          IN /\ f.guildId = refreshConfigs[rr.g].guildId
             /\ IF f.how = "delete" THEN rr'.pc = "send" /\ rr'.g = rr.g
                ELSE IF j > Len(refreshConfigs) THEN rr'.pc = "idle"
                ELSE rr'.pc = "build" /\ rr'.g = j]_vars

\* The second guild's summary is being built in a cycle in which both deleting
\* the first guild's previous message and posting its new one failed.
SecondGuildReachedAfterFailures ==
  /\ rr.pc = "build"
  /\ rr.g = 2
  /\ {[guildId |-> refreshConfigs[1].guildId, how |-> h] : h \in {"delete", "send"}}
       \subseteq rr.failed

\* The active players of the snapshot a rendering was asked for.
ActiveOf(in) == {i \in 1..Len(in.snapshot.players) : IsActive(in.snapshot.players[i])}

\* The rendered entry shows a player whose size puts it at that rank: fewer
\* than rank active players are larger, at least rank are as large.
RankedBySize(in, f) ==
  LET size(i) == Val(in.snapshot.players[i].size)
      larger == {i \in ActiveOf(in) : size(i) > Val(f.player.size)}
      asLarge == {i \in ActiveOf(in) : size(i) >= Val(f.player.size)}
  IN /\ IsActive(f.player)
     /\ Cardinality(larger) < f.rank
     /\ f.rank <= Cardinality(asLarge)

\* C19: for n active players and any requested page index p, negative and
\* too large included, the leaderboard has totalPages = max(1, ceil(n / 5))
\* and renders page min(max(p, 0), totalPages - 1); with 12 active players
\* and p = 3 it renders page 2, which holds exactly the players ranked 11
\* and 12.
PageIsClampedIntoRange ==
  lbOut # Null =>
    LET in == Val(lbIn)
        out == Val(lbOut)
        n == Cardinality(ActiveOf(in))
        ceil == SetMin({k \in 0..n : k * LB_PAGE_SIZE >= n})
    IN /\ out.totalPages = (IF ceil >= 1 THEN ceil ELSE 1)
       /\ out.currentPage \in 0..(out.totalPages - 1)
       /\ in.page \in 0..(out.totalPages - 1) => out.currentPage = in.page
       /\ in.page < 0 => out.currentPage = 0
       /\ in.page > out.totalPages - 1 => out.currentPage = out.totalPages - 1
       /\ (n = 12 /\ in.page = 3) =>
            /\ out.currentPage = 2
            /\ Len(out.fields) = 2
            /\ out.fields[1].rank = 11 /\ out.fields[2].rank = 12
            /\ \A i \in 1..2 : RankedBySize(in, out.fields[i])
            /\ out.fields[1].player # out.fields[2].player

\* Twelve active players and page 3 requested: the last page was rendered.
TwelvePlayersPageThree ==
  /\ lbOut # Null
  /\ Cardinality(ActiveOf(Val(lbIn))) = 12
  /\ Val(lbIn).page = 3
  /\ Val(lbOut).currentPage = 2
  /\ Val(lbOut).totalPages = 3

\* The entries of every page of the leaderboard of a snapshot.
AllEntries(in) ==
  LET players == LbPlayers(in.snapshot)
      pages == 0..(buildLbEmbed(players, 0).totalPages - 1)
      on(q) == buildLbEmbed(players, q).fields
  IN UNION {{[page |-> q, entry |-> on(q)[i]] : i \in 1..Len(on(q))} : q \in pages}

\* C20: each rendered entry's rank is its 1-based position in the whole list
\* of active players sorted by size descending, not its position in the page;
\* each page holds at most 5 entries; over pages 0..totalPages-1 every active
\* player appears exactly once.
RanksAreGlobalAndPagesPartition ==
  lbOut # Null =>
    LET in == Val(lbIn)
        out == Val(lbOut)
        all == AllEntries(in)
    IN /\ Len(out.fields) <= 5
       /\ \A i \in 1..Len(out.fields) :
            /\ RankedBySize(in, out.fields[i])
            /\ out.fields[i].rank = out.currentPage * 5 + i
            /\ [page |-> out.currentPage, entry |-> out.fields[i]] \in all
       /\ \A i \in ActiveOf(in) :
            Cardinality({e \in all : e.entry.player = in.snapshot.players[i]}) = 1
       /\ \A e \in all : RankedBySize(in, e.entry)
       /\ {e.entry.rank : e \in all} = 1..Cardinality(ActiveOf(in))
       /\ Cardinality(all) = Cardinality(ActiveOf(in))

\* A later page of a leaderboard was rendered from a snapshot that holds
\* hidden players and two shown players of equal size.
LaterPageOfMixedLobby ==
  /\ lbOut # Null
  /\ Val(lbOut).currentPage >= 1
  /\ Len(Val(lbOut).fields) >= 1
  /\ Val(lbOut).fields[1].rank = Val(lbOut).currentPage * 5 + 1
  /\ \E i \in 1..Len(Val(lbIn).snapshot.players) : i \notin ActiveOf(Val(lbIn))
  /\ \E i, j \in ActiveOf(Val(lbIn)) :
       /\ i # j
       /\ Val(lbIn).snapshot.players[i].size = Val(lbIn).snapshot.players[j].size

\* Both the rendering and the one before it returned a view.
RenderedTwice ==
  /\ lbPrev # Null /\ ~Val(lbPrev).thrown
  /\ lbOut # Null /\ ~Val(lbOut).thrown

NullRateGivesNullUsd ==
  [][solPriceUsd = Null =>
       \A k \in Keys :
         (lobbyCache'[k] # lobbyCache[k] /\ lobbyCache'[k] # Null) =>
           \A i \in 1..Len(Val(lobbyCache'[k]).players) :
             Val(lobbyCache'[k]).players[i].usdFromSol = Null]_vars

\* A price refresh has failed, no rate is stored, and a cached snapshot
\* holds a player with a monetaryValue and no USD value.
PricedPlayerWithoutRate ==
  /\ solPriceUsd = Null
  /\ priceLast # Null
  /\ \E k \in Keys :
       /\ lobbyCache[k] # Null
       /\ \E i \in 1..Len(Val(lobbyCache[k]).players) :
            /\ Val(lobbyCache[k]).players[i].monetaryValue # Null
            /\ Val(lobbyCache[k]).players[i].usdFromSol = Null

\* The response is one the refresh can use: a body reporting success with a
\* numeric price and, if it carries lastUpdated, one that is a date.
PriceUsable(o) ==
  /\ o.kind = "body"
  /\ o.body.success
  /\ o.body.price # Null
  /\ o.body.lastUpdated # "garbage"

\* C23: a successful price refresh replaces the stored rate and its timestamp
\* together in one step; a failed or malformed refresh leaves the stored rate
\* and the stored timestamp exactly as they were.
PriceRefreshAllOrNothing ==
  [][(priceReq /\ ~priceReq') =>
       \A o \in PriceOutcomes :
         priceLast' = Some(o) =>
           IF PriceUsable(o)
           THEN /\ solPriceUsd' = o.body.price
                /\ solPriceUpdatedAt' # Null
                /\ Val(solPriceUpdatedAt') \in {clock, UpstreamTime}
           ELSE /\ solPriceUsd' = solPriceUsd
                /\ solPriceUpdatedAt' = solPriceUpdatedAt]_vars

WatchIdsOf(cfg) == {cfg.watches[i].id : i \in 1..Len(cfg.watches)}

\* C24: within one guild, watch ids are assigned in strictly increasing order
\* and an id is never reused, also after watch remove and watch clear: a step
\* never lowers nextWatchId, a watch that appears has an id at or above the
\* nextWatchId before the step, and in every state every stored watch's id is
\* smaller than the guild's nextWatchId.
WatchIdsIncreaseAndAreNotReused ==
  [][\A gid \in Guilds :
       LET old == ConfigOf(guildConfigs, gid)
           new == ConfigOf(guildConfigs', gid)
       IN /\ new.nextWatchId >= old.nextWatchId
          /\ \A id \in WatchIdsOf(new) \ WatchIdsOf(old) :
               id >= old.nextWatchId /\ new.nextWatchId > old.nextWatchId
          /\ \A id \in WatchIdsOf(new) : id < new.nextWatchId
          /\ Cardinality(WatchIdsOf(new)) = Len(new.watches)]_vars

\* A guild whose first watch was removed holds a watch with the next id.
SecondIdAfterRemoval ==
  \E g \in 1..Len(guildConfigs) :
    /\ WatchIdsOf(guildConfigs[g]) = {2}
    /\ guildConfigs[g].nextWatchId = 3

\* C25: removing a watch by an id the guild does not have leaves the guild's
\* watches and nextWatchId unchanged and replies 'Watch not found'.
RemovingUnknownWatchIsNotFound ==
  [][\A gid \in Guilds, id \in RemoveIds :
       (WatchRemove(gid, id) /\ id \notin WatchIdsOf(ConfigOf(guildConfigs, gid))) =>
         /\ reply' = "Watch not found"
         /\ \A other \in Guilds :
              /\ ConfigOf(guildConfigs', other).watches
                   = ConfigOf(guildConfigs, other).watches
              /\ ConfigOf(guildConfigs', other).nextWatchId
                   = ConfigOf(guildConfigs, other).nextWatchId]_vars

\* A remove was answered 'Watch not found' by a guild that holds a watch and
\* has assigned two ids.
UnknownIdRefused ==
  /\ reply = "Watch not found"
  /\ \E g \in 1..Len(guildConfigs) :
       /\ Len(guildConfigs[g].watches) = 1
       /\ guildConfigs[g].nextWatchId = 3

\* The lobby, the cache holding the snapshot, the watch and the guild that
\* the three computations are given.
ProbeLobby == LOBBIES[1]

ProbeCache(in) ==
  [k \in Keys |-> Some([players |-> in.snapshot.players, noApi |-> FALSE])]

ProbeConfig == [NewConfig(1) EXCEPT !.alertEnabled[ProbeLobby.key] = TRUE]

WatchCount(in) ==
  EvalRecord(ProbeConfig, NewWatch(1, ProbeLobby, 1, 1), ProbeCache(in), 0,
             watchHist).count

JoinConsidered(in) ==
  LET dets == JoinStep(ProbeConfig, ProbeCache(in), ProbeLobby).dets
  IN (CHOOSE d \in dets : TRUE).active

Ranked(in) == {e.entry.player : e \in AllEntries(in)}

\* C26: for any snapshot, join detection, watch evaluation and the leaderboard
\* use the same active-player predicate, a numeric size strictly above 3: the
\* count a watch compares with its threshold equals the number of players
\* the leaderboard ranks and the number join detection considers, and they
\* are the same players.
SameActivePlayersEverywhere ==
  lbIn # Null =>
    LET in == Val(lbIn)
        players == in.snapshot.players
        above == {players[i] : i \in {j \in 1..Len(players) :
                    players[j].size # Null /\ Val(players[j].size) > 3}}
        join == JoinConsidered(in)
    IN /\ WatchCount(in) = Cardinality(above)
       /\ Len(join) = Cardinality(above)
       /\ {join[i] : i \in 1..Len(join)} = above
       /\ Ranked(in) = above
       /\ Cardinality(AllEntries(in)) = WatchCount(in)

\* A rendered snapshot holds a player of size 3, a player without a size and
\* a ranked player.
SnapshotWithBorderlinePlayers ==
  /\ lbOut # Null
  /\ \E i, j \in 1..Len(Val(lbIn).snapshot.players) :
       /\ Val(lbIn).snapshot.players[i].size = Some(3)
       /\ Val(lbIn).snapshot.players[j].size = Null
  /\ WatchCount(Val(lbIn)) >= 1

\* The guilds the configs written to the file belonged to.
SavedGuilds ==
  {gid \in Guilds : \/ HasConfig(Val(savedFrom).cfgs, gid)
                    \/ \E i \in 1..Len(Val(savedFrom).rcfgs) :
                         Val(savedFrom).rcfgs[i].guildId = gid}

\* C27: saving the guild configs and loading them back restores each guild's
\* alert channel, alert-enabled map, watches (id, lobby key, threshold,
\* interval, lastAlertAt), nextWatchId, ping role, default region and refresh
\* channel unchanged, while every last-seen set is empty after the load.
SaveThenLoadRestoresConfigs ==
  [][Restart =>
       /\ \A gid \in Guilds : HasConfig(guildConfigs', gid) <=> gid \in SavedGuilds
       /\ \A gid \in SavedGuilds :
            LET old == ConfigOf(Val(savedFrom).cfgs, gid)
                oldr == RefreshConfigOf(Val(savedFrom).rcfgs, gid)
                new == ConfigOf(guildConfigs', gid)
                newr == RefreshConfigOf(refreshConfigs', gid)
            IN /\ new.alertChannelId = old.alertChannelId
               /\ new.alertEnabled = old.alertEnabled
               /\ new.watches = old.watches
               /\ new.nextWatchId = old.nextWatchId
               /\ new.pingRoleId = old.pingRoleId
               /\ newr.defaultRegion = oldr.defaultRegion
               /\ newr.refreshChannelId = oldr.refreshChannelId
               /\ \A k \in Keys : new.lastSeenPlayers[k] = {}]_vars

\* A guild was loaded whose saved config had players in a last-seen set and a
\* watch that had alerted: the watch is back with its time, the set is empty.
LoadedWithoutLastSeen ==
  /\ savedFrom # Null
  /\ \E g \in 1..Len(Val(savedFrom).cfgs), h \in 1..Len(guildConfigs) :
       /\ Val(savedFrom).cfgs[g].guildId = guildConfigs[h].guildId
       /\ \E k \in Keys : Val(savedFrom).cfgs[g].lastSeenPlayers[k] # {}
       /\ \A k \in Keys : guildConfigs[h].lastSeenPlayers[k] = {}
       /\ guildConfigs[h].watches = Val(savedFrom).cfgs[g].watches
       /\ \E i \in 1..Len(guildConfigs[h].watches) :
            guildConfigs[h].watches[i].lastAlertAt # Null
       /\ guildConfigs[h].pingRoleId # ""

\* C28: if the cache holds a snapshot of the lobby whose lastFetched is less
\* than 5000 ms before the call, getLobbySnapshot returns that cached snapshot,
\* issues no network request and leaves the cache unchanged.
FreshCallReturnsCached ==
  [][\A l \in Lobbies :
       (/\ LbCommand(l)
        /\ HasUrl(l)
        /\ lobbyCache[l.key] # Null
        /\ clock - Val(lobbyCache[l.key]).lastFetched < 5000) =>
         /\ Len(returned') = 1
         /\ returned'[1].val = lobbyCache[l.key]
         /\ requests' = requests
         /\ lobbyCache' = lobbyCache]_vars

\* A call was answered from the cache some time after the snapshot was
\* fetched, with no request in flight.
AnsweredFromCache ==
  /\ requests = <<>>
  /\ \E i \in 1..Len(returned) :
       /\ returned[i].fn = "getLobbySnapshot"
       /\ returned[i].path = "hit"
       /\ returned[i].val = lobbyCache[returned[i].key]
       /\ clock > Val(returned[i].val).lastFetched

\* Cycle c is awaiting the send of an alert of some watch.
WatchSendPending(c) == cyc[c].pc = "watchSend"

\* C29: also when a poll cycle starts while an earlier cycle is still awaiting
\* a notification send, a watch never sends two alerts less than
\* intervalMinutes apart: two cycles awaiting the send of an alert of the same
\* watch evaluated it at least intervalMinutes * 60000 ms apart, and no
\* evaluation fires a watch earlier than that after its last alert.
OverlappingCyclesKeepCooldown ==
  /\ \A c1, c2 \in Cycles :
       (/\ c1 # c2
        /\ WatchSendPending(c1) /\ WatchSendPending(c2)
        /\ cyc[c1].g = cyc[c2].g /\ cyc[c1].w = cyc[c2].w) =>
         \A i \in 1..Len(guildConfigs[cyc[c1].g].watches) :
           LET watch == guildConfigs[cyc[c1].g].watches[i]
           IN watch.id = cyc[c1].w =>
                \/ cyc[c1].now - cyc[c2].now >= watch.intervalMinutes * 60000
                \/ cyc[c2].now - cyc[c1].now >= watch.intervalMinutes * 60000
  /\ \A e \in evals :
       (e.sent # Null /\ e.now < Val(e.sent) + e.intervalMinutes * 60000)
         => e.out # "fire"

\* The players of a snapshot that a leaderboard shows.
ShownCount(snapshot) ==
  Cardinality({i \in 1..Len(snapshot.players) :
                 /\ snapshot.players[i].size # Null
                 /\ Val(snapshot.players[i].size) > ActiveSize})

\* The number of pages those players fill, at least one.
PagesOf(snapshot) ==
  IF ShownCount(snapshot) = 0 THEN 1
  ELSE ((ShownCount(snapshot) - 1) \div LB_PAGE_SIZE) + 1

\* The message shows page clamp(p + dir) of snapshot.
ShowsTurnedPage(msg, snapshot, p, dir) ==
  /\ ~msg.thrown
  /\ msg.totalPages = PagesOf(snapshot)
  /\ msg.currentPage = Min(Max(p + dir, 0), PagesOf(snapshot) - 1)
  /\ msg.currentPage \in 0..(PagesOf(snapshot) - 1)
  /\ Len(msg.fields) = Min(LB_PAGE_SIZE,
                           ShownCount(snapshot) - msg.currentPage * LB_PAGE_SIZE)
  /\ \A i \in 1..Len(msg.fields) :
       \E j \in 1..Len(snapshot.players) : msg.fields[i].player = snapshot.players[j]

\* C30: a press of the previous or next button of a message showing page p
\* renders page clamp(p - 1) or clamp(p + 1) of the snapshot that
\* getLobbySnapshot returns for the press (the cached one when fresh,
\* otherwise the one just fetched), and the rendered page lies within
\* 0..totalPages - 1 of that snapshot, whatever the displayed message held.
PressTurnsPageOfCurrentSnapshot ==
  [][/\ \A dir \in ButtonDirs :
          LbButton(ButtonLobby, dir) /\ SnapshotNow(ButtonLobby) # Null
          => ShowsTurnedPage(Val(lbOut'), Val(lobbyCache[ButtonLobby.key]),
                             Val(lbOut).currentPage, dir)
     /\ \A i \in 1..Len(requests), o \in ButtonOutcomes :
          ButtonSettle(i, o) /\ FetchOk(o)
          => ShowsTurnedPage(Val(lbOut'), Val(lobbyCache'[requests[i].key]),
                             requests[i].page, requests[i].dir)]_vars

\* A press of the next button on page 1 of 3 found a lobby with fewer shown
\* players and rendered its last page, below the page asked for.
NextPressClampedToShrunkLobby ==
  /\ lbPrev # Null /\ lbOut # Null /\ lbIn # Null
  /\ ~Val(lbPrev).thrown /\ ~Val(lbOut).thrown
  /\ reply = "page"
  /\ Val(lbPrev).next
  /\ Val(lbOut).totalPages < Val(lbPrev).totalPages
  /\ Val(lbIn).page = Val(lbPrev).currentPage + 1
  /\ Val(lbIn).page > Val(lbOut).currentPage
  /\ Val(lbOut).currentPage = Val(lbOut).totalPages - 1

\* The identifier stored for the guild the refresh loop is working on.
StoredSummaryId == refreshConfigs[rr.g].lastRefreshMessageId

\* C31: in an iteration of the auto-refresh loop, the post of the new summary
\* is reached directly from the build only when no identifier is stored; with
\* an identifier stored the loop first fetches the previous message and, when
\* it is found, deletes it; whatever the fetch and the deletion come to, the
\* loop goes on to post for the same guild; and a successful post stores the
\* identifier of the message just posted, which is not the one stored before.
PreviousSummaryDeletedBeforePost ==
  [][/\ rr.pc = "build" /\ rr'.pc = "send" => StoredSummaryId = Null
     /\ rr.pc = "build" /\ rr'.pc = "fetchPrev" => StoredSummaryId # Null
     /\ rr'.pc = "send" /\ rr.pc # "send"
          => rr.pc \in {"build", "fetchPrev", "delete"} /\ rr'.g = rr.g
     /\ rr.pc \in {"fetchPrev", "delete"} /\ rr' # rr
          => /\ rr'.g = rr.g
             /\ rr'.pc \in (IF rr.pc = "fetchPrev" THEN {"delete", "send"} ELSE {"send"})
             /\ refreshConfigs' = refreshConfigs
     /\ rr.pc = "send" /\ rr'.posts # rr.posts
          => /\ refreshConfigs'[rr.g].lastRefreshMessageId = Some(rr'.posts)
             /\ refreshConfigs'[rr.g].lastRefreshMessageId # StoredSummaryId
             /\ \A i \in 1..Len(refreshConfigs) :
                  i # rr.g => refreshConfigs'[i] = refreshConfigs[i]
     /\ rr.pc = "send" /\ rr' # rr /\ rr'.posts = rr.posts
          => refreshConfigs' = refreshConfigs]_vars

\* A guild's previous summary could not be deleted in this cycle, and the
\* summary posted after that is the one whose identifier is stored.
PostedAfterFailedDeletion ==
  /\ rr.posts >= 2
  /\ \E i \in 1..Len(refreshConfigs) :
       /\ [guildId |-> refreshConfigs[i].guildId, how |-> "delete"] \in rr.failed
       /\ refreshConfigs[i].lastRefreshMessageId = Some(rr.posts)

\* Does a lobby of LOBBIES with this key have a fetch endpoint?
KeyHasEndpoint(key) ==
  \E i \in 1..Len(LOBBIES) : LOBBIES[i].key = key /\ LOBBIES[i].url # ""

\* A stored watch as the add command promises it.
WellFormedWatch(w) ==
  /\ w.threshold \in Nat /\ w.threshold >= 1
  /\ w.intervalMinutes \in Nat /\ w.intervalMinutes >= 1
  /\ w.lastAlertAt = Null \/ Val(w.lastAlertAt) \in Nat
  /\ KeyHasEndpoint(w.lobbyKey)

\* Arguments the add command accepts: a lobby of LOBBIES with an endpoint,
\* a whole threshold and whole minutes from one up.
AcceptedArgs(lobbyNum, region, threshold, minutes) ==
  /\ lobbyNum # Null /\ threshold # Null /\ minutes # Null
  /\ Val(threshold) >= 1 /\ Val(minutes) >= 1
  /\ \E i \in 1..Len(LOBBIES) :
       /\ LOBBIES[i].lobby = Val(lobbyNum) /\ LOBBIES[i].region = region
       /\ LOBBIES[i].url # ""

\* C32: after every watch add, remove or clear command each stored watch has
\* a whole threshold and a whole interval of at least one, a lastAlertAt that
\* is null or a timestamp, and a lobby with a fetch endpoint; and a watch add
\* whose threshold, minutes or lobby is invalid, or whose lobby has no
\* endpoint, leaves the guild's watches and nextWatchId as they were.
StoredWatchesAreValid ==
  [][/\ \A i \in 1..Len(guildConfigs') : \A j \in 1..Len(guildConfigs'[i].watches) :
          WellFormedWatch(guildConfigs'[i].watches[j])
     /\ \A gid \in OneGuild :
          \/ /\ ConfigOf(guildConfigs', gid).watches = ConfigOf(guildConfigs, gid).watches
             /\ ConfigOf(guildConfigs', gid).nextWatchId
                  = ConfigOf(guildConfigs, gid).nextWatchId
             /\ reply' # "Watch created"
          \/ \A lobbyNum \in ParsedLobbies, region \in {"us", "eu", "asia"},
                threshold \in ParsedCounts(MaxThreshold),
                minutes \in ParsedCounts(MaxMinutes) :
               \/ AcceptedArgs(lobbyNum, region, threshold, minutes)
               \/ ~WatchAddArgs(gid, lobbyNum, region, threshold, minutes)]_vars

\* A guild holds a watch and its last add command was refused for its
\* threshold.
AddRefusedWithWatchStored ==
  /\ reply = "Invalid threshold"
  /\ \E i \in 1..Len(guildConfigs) :
       /\ Len(guildConfigs[i].watches) = 1
       /\ guildConfigs[i].nextWatchId = 3

\* C33: the stored rate and its timestamp are both null or both set, before
\* and after every step, and a rate that is set is never null afterwards.
RateAndTimestampSetTogetherForGood ==
  [][/\ (solPriceUsd = Null) <=> (solPriceUpdatedAt = Null)
     /\ (solPriceUsd' = Null) <=> (solPriceUpdatedAt' = Null)
     /\ solPriceUsd # Null => solPriceUsd' # Null]_vars

\* The rate of an earlier refresh is still stored after a refresh that failed
\* or brought an unusable response.
RateKeptAfterFailedRefresh ==
  /\ solPriceUsd # Null
  /\ solPriceUpdatedAt # Null
  /\ priceLast # Null
  /\ ~PriceOk(Val(priceLast))

\* The USD value a player gets when the stored rate is rate.
UsdAtRate(q, rate) ==
  IF q.monetaryValue # Null /\ rate # Null /\ Val(rate) > 0
  THEN Some(Val(q.monetaryValue) * Val(rate))
  ELSE Null

\* C34: a step of the price refresh leaves every cached snapshot as it was;
\* a cached snapshot changes only in a step in which fetchLobbyPlayers stores
\* one for that lobby (for a lobby with an endpoint, a step in which a request
\* for it settles), and the players of the snapshot then stored carry the USD
\* values of the rate stored at that moment (null when there was none).
PriceRefreshLeavesSnapshots ==
  [][/\ priceReq' # priceReq => lobbyCache' = lobbyCache
     /\ \A k \in Keys :
          lobbyCache'[k] # lobbyCache[k] =>
            /\ HasUrl(LobbyOf(k)) =>
                 /\ Len(requests') < Len(requests)
                 /\ \E i \in 1..Len(requests) : requests[i].key = k
            /\ lobbyCache'[k] # Null
            /\ \A i \in 1..Len(Val(lobbyCache'[k]).players) :
                 Val(lobbyCache'[k]).players[i].usdFromSol
                   = UsdAtRate(Val(lobbyCache'[k]).players[i], solPriceUsd)]_vars

\* A rate of 2 is stored, and a cached snapshot still holds a player with a
\* monetaryValue whose USD value is null, as computed before there was a rate.
SnapshotKeepsNullUsdUnderNewRate ==
  /\ solPriceUsd = Some(2)
  /\ \E k \in Keys :
       /\ lobbyCache[k] # Null
       /\ \E i \in 1..Len(Val(lobbyCache[k]).players) :
            /\ Val(lobbyCache[k]).players[i].monetaryValue # Null
            /\ Val(lobbyCache[k]).players[i].usdFromSol = Null

\* Every lobby with join alerts enabled in cfgs has a fetch endpoint, and its
\* guild has an alert channel.
EnabledLobbiesAreServed(cfgs) ==
  \A i \in 1..Len(cfgs) : \A k \in Keys :
    cfgs[i].alertEnabled[k] => HasUrl(LobbyOf(k)) /\ cfgs[i].alertChannelId # ""

\* C35: before and after every step, a lobby that is alert-enabled for a guild
\* has a fetch endpoint and the guild has an alert channel; and an alert
\* channel that is set stays set.
AlertEnabledImpliesEndpointAndChannel ==
  [][/\ EnabledLobbiesAreServed(guildConfigs)
     /\ EnabledLobbiesAreServed(guildConfigs')
     /\ \A i \in 1..Len(guildConfigs) :
          guildConfigs[i].alertChannelId # ""
            => /\ i <= Len(guildConfigs')
               /\ guildConfigs'[i].guildId = guildConfigs[i].guildId
               /\ guildConfigs'[i].alertChannelId # ""]_vars

\* Join alerts are enabled for the lobby with an endpoint, and the command
\* just handled, for the lobby without one, was refused.
EnabledWhileOtherLobbyRefused ==
  /\ reply = "No API"
  /\ \E i \in 1..Len(guildConfigs) :
       /\ guildConfigs[i].alertEnabled[LOBBIES[1].key]
       /\ ~guildConfigs[i].alertEnabled[LOBBIES[5].key]
       /\ guildConfigs[i].alertChannelId # ""

\* The last-seen set of guild gid for the lobby with this key.
LastSeen(cfgs, gid, key) == ConfigOf(cfgs, gid).lastSeenPlayers[key]

FailedWatchSendLeavesWatchEligible ==
  [][/\ \A c \in Cycles :
          cyc[c].pc = "watchSend" /\ cyc'[c] # cyc[c] /\ alerts' = {}
            => /\ cyc'[c].pc = "idle"
               /\ guildConfigs' = guildConfigs
               /\ \A gid \in Guilds, id \in WatchIds :
                    watchHist'[gid][id].sent = watchHist[gid][id].sent
     /\ \A e \in evals' :
          e.prev = "fire" /\ e.sent = Null
            => /\ e.last = Null
               /\ e.usable /\ e.count >= e.threshold => e.out = "fire"]_vars

\* The evaluation before this one fired, no alert of the watch was ever sent,
\* and the watch fires again.
WatchFiresAgainAfterFailedSend ==
  \E e \in evals : e.prev = "fire" /\ e.sent = Null /\ e.last = Null /\ e.out = "fire"

\* The identifiers of the active players a detection looked at.
ActiveKeys(d) == {PlayerKey(d.active[i]) : i \in 1..Len(d.active)} \ {""}

\* C38: at the first detection of a (guild, lobby) after its join alerts were
\* enabled, for the first time or again after they were switched off, the
\* last-seen set is empty and the players reported are all the active players
\* of the snapshot, one per identifier.
FirstDetectionReportsEveryone ==
  \A d \in joined :
    (d.before.prev = "none" \/ d.before.off) =>
      /\ d.last = {}
      /\ {PlayerKey(d.joins[i]) : i \in 1..Len(d.joins)} = ActiveKeys(d)
      /\ \A i \in 1..Len(d.joins) :
           \E j \in 1..Len(d.active) : d.joins[i] = d.active[j]

\* Join alerts were switched off and on again, and the detection after that
\* reports a player who was in the set of the detection before.
ReportedAgainAfterReenabling ==
  \E d \in joined :
    /\ d.before.off
    /\ d.before.prev = "some"
    /\ d.last = {}
    /\ d.before.cur \cap {PlayerKey(d.joins[i]) : i \in 1..Len(d.joins)} # {}

\* The players of a cached snapshot that count as active.
CountedPlayers(snap) ==
  SelectSeq(snap.players, LAMBDA q : q.size # Null /\ Val(q.size) > ActiveSize)

\* The lobby key of the watch an evaluation record is about.
WatchedKey(cfgs, e) ==
  LET ws == ConfigOf(cfgs, e.guildId).watches
  IN ws[CHOOSE i \in 1..Len(ws) : ws[i].id = e.id].lobbyKey

\* The fetch of the lobby with key k settled in this step, and failed.
FetchFailedFor(k) ==
  /\ Len(returned') >= 1
  /\ returned'[1].fn = "fetchLobbyPlayers"
  /\ returned'[1].path = "fail"
  /\ returned'[1].key = k

\* The detection before d, for the same guild and lobby, left the identifiers
\* of d's active players in the last-seen set.
SameSnapshotProcessedBefore(d) ==
  d.before.prev = "some" /\ d.before.cur = ActiveKeys(d)

\* What a poll cycle does with the cache: a fetch that fails leaves the
\* lobby's cached snapshot as it was, and the join detection and the watch
\* evaluations read the snapshot the cache holds when they run.
ProcessingReadsRetainedSnapshot ==
  /\ \A k \in Keys : FetchFailedFor(k) => lobbyCache'[k] = lobbyCache[k]
  /\ \A d \in joined' :
       /\ lobbyCache'[d.key] # Null
       /\ d.active = CountedPlayers(Val(lobbyCache'[d.key]))
  /\ \A e \in evals' :
       LET snap == lobbyCache'[WatchedKey(guildConfigs', e)]
       IN /\ e.usable = (snap # Null /\ ~Val(snap).noApi)
          /\ e.usable => e.count = Len(CountedPlayers(Val(snap)))

\* C39 as stated: after a failed fetch the detection and the watch
\* evaluations run on the retained snapshot, and the detection made in the
\* step of the failed fetch reports no join whenever the detection before it
\* processed the same snapshot for that guild.
FailedFetchReportsNoJoin ==
  [][/\ ProcessingReadsRetainedSnapshot
     /\ \A k \in Keys : FetchFailedFor(k) =>
          \A d \in joined' :
            (d.key = k /\ SameSnapshotProcessedBefore(d)) => d.joins = <<>>]_vars

\* C39 amended: the same, with no join reported when the detection before
\* processed the same snapshot and the lobby's join alerts were not switched
\* off since.
FailedFetchReportsNoJoinWhileOn ==
  [][/\ ProcessingReadsRetainedSnapshot
     /\ \A k \in Keys : FetchFailedFor(k) =>
          \A d \in joined' :
            (d.key = k /\ SameSnapshotProcessedBefore(d) /\ ~d.before.off)
              => d.joins = <<>>]_vars

\* A lobby's fetch has just failed; in the same step the detection found the
\* retained snapshot's active players, already seen, and reported no join,
\* and a watch on the lobby was evaluated on that snapshot.
RetainedSnapshotProcessedAfterFailure ==
  /\ Len(returned) >= 1
  /\ returned[1].path = "fail"
  /\ lobbyCache[returned[1].key] # Null
  /\ \E d \in joined :
       /\ d.key = returned[1].key
       /\ Len(d.active) > 0
       /\ d.before.prev = "some"
       /\ d.joins = <<>>
  /\ \E e \in evals :
       /\ WatchedKey(guildConfigs, e) = returned[1].key
       /\ e.usable /\ e.count > 0

\* No alert channel is configured, or the guild or channel does not resolve.
Unresolved(cfg) == cfg.alertChannelId = "" \/ cfg.guildId \notin reachable

\* A poll cycle is waiting for a send it began for the guild at index g.
SendInFlightFor(g) ==
  \E c \in Cycles : cyc[c].pc \in {"joinSend", "watchSend"} /\ cyc[c].g = g

\* The step neither examines nor alerts the guild gid, and begins no send
\* for the guild at index g.
CycleSkipsTenant(g, gid) ==
  /\ \A d \in joined' : d.guildId # gid
  /\ \A e \in evals' : e.guildId # gid
  /\ \A a \in alerts' : a.guildId # gid
  /\ \A c \in Cycles :
       cyc'[c].pc \in {"joinSend", "watchSend"} => cyc'[c].g # g

\* A guild without alert channel has no watch that has fired, and no cycle is
\* sending for it.
UnsetChannelNeverFired ==
  \A g \in 1..Len(guildConfigs) :
    guildConfigs[g].alertChannelId = "" =>
      /\ ~SendInFlightFor(g)
      /\ \A i \in 1..Len(guildConfigs[g].watches) :
           /\ guildConfigs[g].watches[i].lastAlertAt = Null
           /\ watchHist[guildConfigs[g].guildId][guildConfigs[g].watches[i].id].sent
                = Null

\* C40: a step of a poll cycle (any step that is not a command) that finds a
\* guild without alert channel, or with a guild or channel that does not
\* resolve, examines nothing of that guild, begins no send for it and leaves
\* its last-seen sets and its watches as they are; and a watch of a guild
\* without alert channel has never fired.
UnresolvedTenantIsSkipped ==
  /\ []UnsetChannelNeverFired
  /\ [][reply' = "none" =>
          \A g \in 1..Len(guildConfigs) :
            (Unresolved(guildConfigs[g]) /\ ~SendInFlightFor(g)) =>
              /\ CycleSkipsTenant(g, guildConfigs[g].guildId)
              /\ guildConfigs'[g].lastSeenPlayers = guildConfigs[g].lastSeenPlayers
              /\ guildConfigs'[g].watches = guildConfigs[g].watches]_vars

\* A cycle has just evaluated the watch of one guild while the other guild,
\* whose watch is on the same lobby with the threshold met, was passed over:
\* its channel does not resolve, and its watch has still never fired.
TenantPassedOverWhileOtherServed ==
  \E g \in 1..Len(guildConfigs) :
    /\ Unresolved(guildConfigs[g])
    /\ Len(guildConfigs[g].watches) = 1
    /\ guildConfigs[g].watches[1].lastAlertAt = Null
    /\ \E k \in Keys :
         /\ guildConfigs[g].alertEnabled[k]
         /\ lobbyCache[k] # Null
         /\ guildConfigs[g].lastSeenPlayers[k]
              # {PlayerKey(ActivePlayers(Val(lobbyCache[k]))[i]) :
                    i \in 1..Len(ActivePlayers(Val(lobbyCache[k])))}
    /\ \E e \in evals : e.guildId # guildConfigs[g].guildId /\ e.out = "fire"
    /\ lobbyCache[guildConfigs[g].watches[1].lobbyKey] # Null

====
